---- MODULE Spec2Model ----
(***************************************************************************)
(* A model of the request-orchestration layer of the go-scrapfly client:   *)
(* the retry dispatcher (fetchWithRetry), the concurrent scrape            *)
(* coordinator (Client.ConcurrentScrape), the parameter encoders           *)
(* (toAPIParams, processBody) and the public operations that use them.     *)
(***************************************************************************)
EXTENDS Integers, Sequences, FiniteSets, TLC

VARIABLES
    \* ---- fetchWithRetry (utils.go) ----
    retries,        \* the retries argument
    reqGetBody,     \* the request: "none" (Body == nil), "ok", or "flaky" (GetBody may fail)
    attempt,        \* the loop counter
    lastErr,        \* the lastErr local
    fwrPc,          \* "idle" | "loop" | "returned"
    fwrResp,        \* the returned *http.Response (Nil when none)
    fwrErr,         \* the returned error (Nil when none)
    sends,          \* number of client.Do calls made so far
    sleeps,         \* number of time.Sleep(delay) calls made so far
    closes,         \* number of resp.Body.Close() calls made by fetchWithRetry
    trace,          \* the outcome of each client.Do call, in order
    origBody,       \* the bytes of the request body as the caller built it
    bodyLeft,       \* the bytes not yet read from the reader in req.Body
    sentBodies,     \* the body bytes each client.Do call sent, in order
    \* ---- Client.ConcurrentScrape (client) ----
    nConfigs,         \* len(configs)
    concurrencyLimit, \* the concurrencyLimit parameter (reassigned from the account)
    coPc,             \* position of the calling goroutine
    spawnI,           \* the i of the worker-spawning loop
    submitI,          \* number of configs already sent on jobs
    jobs,             \* the jobs channel's buffer
    jobsClosed,
    resultsChan,      \* the resultsChan channel's buffer
    resultsClosed,
    wg,               \* the WaitGroup counter
    wPc,              \* per worker: "unborn" | "recv" | "scrape" | "send" | "exit"
    wJob,             \* per worker: the config it holds (0: none)
    wOut,             \* per worker: outcome of its Scrape call ("none" | "result" | "error")
    waiterPc,         \* the closing goroutine: "unborn" | "wait" | "done"
    received,         \* what the caller has read from the returned channel
    scrapeCalls,      \* per config: number of Scrape calls started for it
    panicked,         \* a goroutine sent on (or closed) a closed channel
    \* ---- Client.Scrape / Screenshot / Extract (client) ----
    op,               \* "none" | "scrape" | "screenshot" | "extract"
    config,           \* the configuration the caller passed (processBody rewrites it)
    config0,          \* that configuration as it was when the call began
    opPc,             \* "idle" | "call" | "fetch" | "done"
    pbErr,            \* what config.processBody() returned (Nil before, and when not called)
    enc,              \* what config.toAPIParams() returned (NotCalled before)
    req,              \* the *http.Request handed to fetchWithRetry (NoRequest when none)
    opResult,         \* the returned result pointer (NilResult when nil)
    opErr,            \* the returned error (Nil when nil)
    directSends,      \* number of c.httpClient.Do calls made outside fetchWithRetry
    loFetch,          \* the large-object fetch of this call: its request and outcome
    respBody,         \* the decoded body of the response the operation classified (NoBody when none)
    respRetryAfter,   \* the Retry-After header of that response (NoHeader when none)
    errDetail,        \* RetryAfterMs and Hint of the returned APIError (NoDetail when none)
    \* ---- Screenshot.Image, Attachment.Data (errors.go) ----
    lazyKind,         \* "screenshot" | "attachment" ("none" when no object is modelled)
    cache,            \* the object's image / data field (NilBytes when nil)
    lazyRet,          \* what the latest call returned (NoReturn before the first)
    lazyCalls,        \* number of calls of Image() / Data() on the object
    httpGets,         \* number of http.Get requests made for the object
    okFetches,        \* number of those whose body was read to the end
    firstOk,          \* the bytes of the first call that returned a nil error, and httpGets then
    lastBody          \* the whole body the latest request was answered with

fwrVars  == <<retries, reqGetBody, attempt, lastErr, fwrPc, fwrResp, fwrErr,
              sends, sleeps, closes, trace, origBody, bodyLeft, sentBodies>>
poolVars == <<nConfigs, concurrencyLimit, coPc, spawnI, submitI, jobs, jobsClosed,
              resultsChan, resultsClosed, wg, wPc, wJob, wOut, waiterPc, received,
              scrapeCalls, panicked>>
respVars == <<respBody, respRetryAfter, errDetail>>
clientVars == <<op, config, config0, opPc, pbErr, enc, req, opResult, opErr, directSends, loFetch, respVars>>
lazyVars == <<lazyKind, cache, lazyRet, lazyCalls, httpGets, okFetches, firstOk, lastBody>>
vars     == <<fwrVars, poolVars, clientVars, lazyVars>>

\* What the steps of one component leave alone.
nonFwrVars  == <<poolVars, clientVars, lazyVars>>
nonPoolVars == <<fwrVars, clientVars, lazyVars>>
nonLazyVars == <<fwrVars, poolVars, clientVars>>

-----------------------------------------------------------------------------
(* Bounds of the model *)

MaxRetries == 3
MaxConfigs == 3
MaxLimit == 2
MaxCalls == 4

-----------------------------------------------------------------------------
(* Values *)

\* Every response and error value has the same shape: a kind, the HTTP status
\* it carries (0 when none) and its message ("" when none).
Nil == [kind |-> "nil", code |-> 0, msg |-> ""]

\* A transport-level failure returned by client.Do.
TransportErr == [kind |-> "neterr", code |-> 0, msg |-> ""]

\* The error returned by req.GetBody.
GetBodyErr == [kind |-> "getbodyerr", code |-> 0, msg |-> ""]

Response(status) == [kind |-> "resp", code |-> status, msg |-> ""]

\* &APIError{Message: "server error", HTTPStatusCode: resp.StatusCode}
ServerError(status) == [kind |-> "apierr", code |-> status, msg |-> "server error"]

\* Status codes the transport may answer with.
Statuses == {200, 404, 499, 500, 599, 600}

\* What one client.Do call may yield.
DoOutcomes == {TransportErr} \cup {Response(s) : s \in Statuses}

Min(S) == CHOOSE x \in S : \A y \in S : x <= y

-----------------------------------------------------------------------------
(* fetchWithRetry *)

LoopCondOffByOne(a, r) == a <= r

LoopCondAtLeastOnce(a, r) == a = 0 \/ a < r

\* for attempt := 0; attempt < retries; attempt++
LoopCond(a, r) == a < r

IsServerErrorNarrow(status) == status > 500 /\ status < 599

IsServerErrorWide(status) == status >= 400 /\ status < 600

\* resp.StatusCode >= 500 && resp.StatusCode < 600
IsServerError(status) == status >= 500 /\ status < 600

\* The state in which fetchWithRetry is not running.
FwrIdle ==
    /\ retries = 0 /\ reqGetBody = "none" /\ attempt = 0 /\ lastErr = Nil
    /\ fwrPc = "idle" /\ fwrResp = Nil /\ fwrErr = Nil
    /\ sends = 0 /\ sleeps = 0 /\ closes = 0 /\ trace = <<>>
    /\ origBody = "" /\ bodyLeft = "" /\ sentBodies = <<>>

\* Entry of fetchWithRetry(client, req, retries, delay): var lastErr error.
FwrEnter(r, gb) ==
    /\ retries' = r /\ reqGetBody' = gb /\ attempt' = 0 /\ lastErr' = Nil
    /\ fwrPc' = "loop" /\ fwrResp' = Nil /\ fwrErr' = Nil
    /\ trace' = <<>>
    /\ bodyLeft' = origBody' /\ sentBodies' = <<>>

StaleBody(orig, left) == left

\* bodyReader, err = req.GetBody(); req.Body = bodyReader: a new reader over
\* the bytes of the body.
FreshBody(orig, left) == orig

\* The body bytes client.Do sends: none when req.Body == nil, else what the
\* reader in req.Body yields.
SentBody(gb, orig, left) == IF gb = "none" THEN "" ELSE FreshBody(orig, left)

\* What client.Do may leave unread in req.Body when it fails: all of what it
\* was given, or nothing.
LeftAfterFailure(sent) == {sent, ""}

FwrReturn(resp, err) ==
    /\ fwrPc' = "returned" /\ fwrResp' = resp /\ fwrErr' = err

\* One iteration in which req.GetBody() fails: return nil, err.
FwrGetBodyError ==
    /\ fwrPc = "loop" /\ LoopCond(attempt, retries)
    /\ reqGetBody = "flaky"
    /\ FwrReturn(Nil, GetBodyErr)
    /\ UNCHANGED <<retries, reqGetBody, attempt, lastErr, sends, sleeps, closes, trace,
                   origBody, bodyLeft, sentBodies>>
    /\ UNCHANGED nonFwrVars

\* One iteration in which client.Do fails: lastErr = err; Sleep; continue.
FwrTransportError ==
    /\ fwrPc = "loop" /\ LoopCond(attempt, retries)
    /\ sends' = sends + 1
    /\ trace' = Append(trace, TransportErr)
    /\ sentBodies' = Append(sentBodies, SentBody(reqGetBody, origBody, bodyLeft))
    /\ bodyLeft' \in LeftAfterFailure(SentBody(reqGetBody, origBody, bodyLeft))
    /\ lastErr' = TransportErr
    /\ sleeps' = sleeps + 1
    /\ attempt' = attempt + 1
    /\ UNCHANGED <<retries, reqGetBody, fwrPc, fwrResp, fwrErr, closes, origBody>>
    /\ UNCHANGED nonFwrVars

\* One iteration in which client.Do answers: a 5xx is closed, recorded and
\* retried after the sleep; any other status is returned.
FwrResponse(status) ==
    /\ fwrPc = "loop" /\ LoopCond(attempt, retries)
    /\ sends' = sends + 1
    /\ trace' = Append(trace, Response(status))
    /\ sentBodies' = Append(sentBodies, SentBody(reqGetBody, origBody, bodyLeft))
    /\ bodyLeft' = ""
    /\ IF IsServerError(status)
       THEN /\ closes' = closes + 1
            /\ lastErr' = ServerError(status)
            /\ sleeps' = sleeps + 1
            /\ attempt' = attempt + 1
            /\ UNCHANGED <<fwrPc, fwrResp, fwrErr>>
       ELSE /\ FwrReturn(Response(status), Nil)
            /\ UNCHANGED <<closes, lastErr, sleeps, attempt>>
    /\ UNCHANGED <<retries, reqGetBody, origBody>>
    /\ UNCHANGED nonFwrVars

\* The loop ends: return nil, lastErr.
FwrExhausted ==
    /\ fwrPc = "loop" /\ ~LoopCond(attempt, retries)
    /\ FwrReturn(Nil, lastErr)
    /\ UNCHANGED <<retries, reqGetBody, attempt, lastErr, sends, sleeps, closes, trace,
                   origBody, bodyLeft, sentBodies>>
    /\ UNCHANGED nonFwrVars

FwrStep ==
    \/ FwrGetBodyError
    \/ FwrTransportError
    \/ \E s \in Statuses : FwrResponse(s)
    \/ FwrExhausted

-----------------------------------------------------------------------------
(* Client.ConcurrentScrape *)

WorkerIds == 1..(MaxLimit + 1)

\* account.Subscription.Usage.Scrape.ConcurrentLimit as decoded from the
\* account document: an int the server chooses (0 when the field is absent).
AccountLimits == 0..MaxLimit

\* The item a worker sends: struct{*ScrapeResult; error}{result, err}.
Item(cfg, kind) == [cfg |-> cfg, kind |-> kind]

\* {nil, fmt.Errorf("failed to get account for concurrency limit: %w", err)}
AccountFailureItem == Item(0, "error")

ChanHasRoomForOne(buf, cap) == Len(buf) < Min({cap, 1})

\* make(chan ..., len(configs)): a send proceeds only while the buffer has
\* room.  With len(configs) = 0 the channel is unbuffered and a send needs a
\* receiver, which no goroutine can be before ConcurrentScrape has returned.
ChanHasRoom(buf, cap) == Len(buf) < cap

SpawnCondOffByOne(i, limit) == i <= limit

\* for i := 0; i < concurrencyLimit; i++
SpawnCond(i, limit) == i < limit

WaitReadyEarly(counter) == TRUE

\* wg.Wait() returns when the counter is zero.
WaitReady(counter) == counter = 0

\* The state in which ConcurrentScrape has not been called.
PoolIdle ==
    /\ nConfigs = 0 /\ concurrencyLimit = 0 /\ coPc = "idle"
    /\ spawnI = 0 /\ submitI = 0
    /\ jobs = <<>> /\ jobsClosed = FALSE
    /\ resultsChan = <<>> /\ resultsClosed = FALSE
    /\ wg = 0
    /\ wPc = [w \in WorkerIds |-> "unborn"]
    /\ wJob = [w \in WorkerIds |-> 0]
    /\ wOut = [w \in WorkerIds |-> "none"]
    /\ waiterPc = "unborn"
    /\ received = <<>>
    /\ scrapeCalls = [i \in 1..MaxConfigs |-> 0]
    /\ panicked = FALSE

\* if concurrencyLimit <= 0 is false: the given limit is used.
CoExplicitLimit ==
    /\ coPc = "entry" /\ ~(concurrencyLimit <= 0)
    /\ coPc' = "spawn"
    /\ UNCHANGED <<nConfigs, concurrencyLimit, spawnI, submitI, jobs, jobsClosed,
                   resultsChan, resultsClosed, wg, wPc, wJob, wOut, waiterPc,
                   received, scrapeCalls, panicked>>
    /\ UNCHANGED nonPoolVars

\* concurrencyLimit <= 0 and c.Account() succeeds:
\* concurrencyLimit = account.Subscription.Usage.Scrape.ConcurrentLimit.
CoAccountOk(limit) ==
    /\ coPc = "entry" /\ concurrencyLimit <= 0
    /\ concurrencyLimit' = limit
    /\ coPc' = "spawn"
    /\ UNCHANGED <<nConfigs, spawnI, submitI, jobs, jobsClosed,
                   resultsChan, resultsClosed, wg, wPc, wJob, wOut, waiterPc,
                   received, scrapeCalls, panicked>>
    /\ UNCHANGED nonPoolVars

\* concurrencyLimit <= 0 and c.Account() fails.
CoAccountFail ==
    /\ coPc = "entry" /\ concurrencyLimit <= 0
    /\ coPc' = "sendfail"
    /\ UNCHANGED <<nConfigs, concurrencyLimit, spawnI, submitI, jobs, jobsClosed,
                   resultsChan, resultsClosed, wg, wPc, wJob, wOut, waiterPc,
                   received, scrapeCalls, panicked>>
    /\ UNCHANGED nonPoolVars

\* resultsChan <- {nil, err}; close(resultsChan); return resultsChan.
CoSendFailure ==
    /\ coPc = "sendfail"
    /\ ChanHasRoom(resultsChan, nConfigs)
    /\ resultsChan' = Append(resultsChan, AccountFailureItem)
    /\ resultsClosed' = TRUE
    /\ coPc' = "returned"
    /\ UNCHANGED <<nConfigs, concurrencyLimit, spawnI, submitI, jobs, jobsClosed,
                   wg, wPc, wJob, wOut, waiterPc, received, scrapeCalls, panicked>>
    /\ UNCHANGED nonPoolVars

\* One iteration of the spawning loop: wg.Add(1); go func() {...}().
CoSpawn ==
    /\ coPc = "spawn" /\ SpawnCond(spawnI, concurrencyLimit)
    /\ wg' = wg + 1
    /\ wPc' = [wPc EXCEPT ![spawnI + 1] = "recv"]
    /\ spawnI' = spawnI + 1
    /\ UNCHANGED <<nConfigs, concurrencyLimit, coPc, submitI, jobs, jobsClosed,
                   resultsChan, resultsClosed, wJob, wOut, waiterPc,
                   received, scrapeCalls, panicked>>
    /\ UNCHANGED nonPoolVars

\* The spawning loop ends.
CoSpawnDone ==
    /\ coPc = "spawn" /\ ~SpawnCond(spawnI, concurrencyLimit)
    /\ coPc' = "submit"
    /\ UNCHANGED <<nConfigs, concurrencyLimit, spawnI, submitI, jobs, jobsClosed,
                   resultsChan, resultsClosed, wg, wPc, wJob, wOut, waiterPc,
                   received, scrapeCalls, panicked>>
    /\ UNCHANGED nonPoolVars

\* for _, config := range configs { jobs <- config }
CoSubmit ==
    /\ coPc = "submit" /\ submitI < nConfigs
    /\ ChanHasRoom(jobs, nConfigs)
    /\ jobs' = Append(jobs, submitI + 1)
    /\ submitI' = submitI + 1
    /\ UNCHANGED <<nConfigs, concurrencyLimit, coPc, spawnI, jobsClosed,
                   resultsChan, resultsClosed, wg, wPc, wJob, wOut, waiterPc,
                   received, scrapeCalls, panicked>>
    /\ UNCHANGED nonPoolVars

\* close(jobs)
CoCloseJobs ==
    /\ coPc = "submit" /\ submitI = nConfigs
    /\ jobsClosed' = TRUE
    /\ coPc' = "gowaiter"
    /\ UNCHANGED <<nConfigs, concurrencyLimit, spawnI, submitI, jobs,
                   resultsChan, resultsClosed, wg, wPc, wJob, wOut, waiterPc,
                   received, scrapeCalls, panicked>>
    /\ UNCHANGED nonPoolVars

\* go func() { wg.Wait(); close(resultsChan) }(); return resultsChan
CoReturn ==
    /\ coPc = "gowaiter"
    /\ waiterPc' = "wait"
    /\ coPc' = "returned"
    /\ UNCHANGED <<nConfigs, concurrencyLimit, spawnI, submitI, jobs, jobsClosed,
                   resultsChan, resultsClosed, wg, wPc, wJob, wOut,
                   received, scrapeCalls, panicked>>
    /\ UNCHANGED nonPoolVars

CoStep ==
    \/ CoExplicitLimit
    \/ \E l \in AccountLimits : CoAccountOk(l)
    \/ CoAccountFail
    \/ CoSendFailure
    \/ CoSpawn
    \/ CoSpawnDone
    \/ CoSubmit
    \/ CoCloseJobs
    \/ CoReturn

\* Outcomes of one c.Scrape(config) call as the worker sees them.
ScrapeOutcomes == {"result", "error"}

\* for config := range jobs: a job is received; result, err := c.Scrape(config) starts.
WRecv(w) ==
    /\ wPc[w] = "recv" /\ jobs # <<>>
    /\ wJob' = [wJob EXCEPT ![w] = Head(jobs)]
    /\ jobs' = Tail(jobs)
    /\ scrapeCalls' = [scrapeCalls EXCEPT ![Head(jobs)] = @ + 1]
    /\ wPc' = [wPc EXCEPT ![w] = "scrape"]
    /\ UNCHANGED <<nConfigs, concurrencyLimit, coPc, spawnI, submitI, jobsClosed,
                   resultsChan, resultsClosed, wg, wOut, waiterPc, received, panicked>>
    /\ UNCHANGED nonPoolVars

\* c.Scrape(config) returns (result, nil) or (nil, err).
WScrapeReturn(w, out) ==
    /\ wPc[w] = "scrape"
    /\ wOut' = [wOut EXCEPT ![w] = out]
    /\ wPc' = [wPc EXCEPT ![w] = "send"]
    /\ UNCHANGED <<nConfigs, concurrencyLimit, coPc, spawnI, submitI, jobs, jobsClosed,
                   resultsChan, resultsClosed, wg, wJob, waiterPc, received,
                   scrapeCalls, panicked>>
    /\ UNCHANGED nonPoolVars

\* A variant of WSend in which a worker stops pulling jobs after an error.
WSendAbortOnError(w) ==
    /\ wPc[w] = "send"
    /\ ~resultsClosed /\ ChanHasRoom(resultsChan, nConfigs)
    /\ resultsChan' = Append(resultsChan, Item(wJob[w], wOut[w]))
    /\ wPc' = [wPc EXCEPT ![w] = IF wOut[w] = "error" THEN "exit" ELSE "recv"]
    /\ wg' = IF wOut[w] = "error" THEN wg - 1 ELSE wg
    /\ wJob' = [wJob EXCEPT ![w] = 0]
    /\ wOut' = [wOut EXCEPT ![w] = "none"]
    /\ UNCHANGED <<nConfigs, concurrencyLimit, coPc, spawnI, submitI, jobs, jobsClosed,
                   resultsClosed, waiterPc, received, scrapeCalls, panicked>>
    /\ UNCHANGED nonPoolVars

\* resultsChan <- {result, err}, then the next iteration of the range loop.
\* A send on a closed channel panics.
WSend(w) ==
    /\ wPc[w] = "send"
    /\ resultsClosed \/ ChanHasRoom(resultsChan, nConfigs)
    /\ IF resultsClosed
       THEN /\ panicked' = TRUE
            /\ wPc' = [wPc EXCEPT ![w] = "exit"]
            /\ UNCHANGED <<resultsChan, wJob, wOut>>
       ELSE /\ resultsChan' = Append(resultsChan, Item(wJob[w], wOut[w]))
            /\ wPc' = [wPc EXCEPT ![w] = "recv"]
            /\ wJob' = [wJob EXCEPT ![w] = 0]
            /\ wOut' = [wOut EXCEPT ![w] = "none"]
            /\ UNCHANGED panicked
    /\ UNCHANGED <<nConfigs, concurrencyLimit, coPc, spawnI, submitI, jobs, jobsClosed,
                   resultsClosed, wg, waiterPc, received, scrapeCalls>>
    /\ UNCHANGED nonPoolVars

\* The range loop ends on the closed, drained jobs channel: defer wg.Done().
WExit(w) ==
    /\ wPc[w] = "recv" /\ jobs = <<>> /\ jobsClosed
    /\ wPc' = [wPc EXCEPT ![w] = "exit"]
    /\ wg' = wg - 1
    /\ UNCHANGED <<nConfigs, concurrencyLimit, coPc, spawnI, submitI, jobs, jobsClosed,
                   resultsChan, resultsClosed, wJob, wOut, waiterPc, received,
                   scrapeCalls, panicked>>
    /\ UNCHANGED nonPoolVars

WStep(w) ==
    \/ WRecv(w)
    \/ \E out \in ScrapeOutcomes : WScrapeReturn(w, out)
    \/ WSend(w)
    \/ WExit(w)

\* wg.Wait(); close(resultsChan).  Closing a closed channel panics.
WaiterClose ==
    /\ waiterPc = "wait" /\ WaitReady(wg)
    /\ waiterPc' = "done"
    /\ resultsClosed' = TRUE
    /\ panicked' = (panicked \/ resultsClosed)
    /\ UNCHANGED <<nConfigs, concurrencyLimit, coPc, spawnI, submitI, jobs, jobsClosed,
                   resultsChan, wg, wPc, wJob, wOut, received, scrapeCalls>>
    /\ UNCHANGED nonPoolVars

\* The caller ranges over the returned channel: one item is received.
ConsumerRecv ==
    /\ coPc = "returned" /\ resultsChan # <<>>
    /\ received' = Append(received, Head(resultsChan))
    /\ resultsChan' = Tail(resultsChan)
    /\ UNCHANGED <<nConfigs, concurrencyLimit, coPc, spawnI, submitI, jobs, jobsClosed,
                   resultsClosed, wg, wPc, wJob, wOut, waiterPc, scrapeCalls, panicked>>
    /\ UNCHANGED nonPoolVars

\* Everything the completion stream has carried so far, in order.
Delivered == received \o resultsChan

\* Scrape calls that have started and not yet returned.
InFlight == Cardinality({w \in WorkerIds : wPc[w] = "scrape"})

-----------------------------------------------------------------------------
(* Go values used by the configurations *)

EmptyFn == [k \in {} |-> ""]

\* A Go map: nil, or a (possibly empty) set of key/value pairs.
NilMap == [isNil |-> TRUE, kv |-> EmptyFn]

MapOf(f) == [isNil |-> FALSE, kv |-> f]

Keys(m) == DOMAIN m.kv

\* The orders in which a range over a map with key set S may visit it.
Orders(S) ==
    {o \in [1..Cardinality(S) -> S] : \A i, j \in DOMAIN o : i # j => o[i] # o[j]}

\* url.Values: params.Set(k, v) replaces the value of k.
Set(p, k, v) == [x \in (DOMAIN p) \cup {k} |-> IF x = k THEN v ELSE p[x]]

\* params.Set(k, v) when cond holds, else nothing.
SetIf(cond, p, k, v) == IF cond THEN Set(p, k, v) ELSE p

RECURSIVE Join(_, _)
\* strings.Join(parts, sep)
Join(parts, sep) ==
    IF parts = <<>> THEN ""
    ELSE IF Len(parts) = 1 THEN parts[1]
    ELSE parts[1] \o sep \o Join(Tail(parts), sep)

Digit(d) ==
    CASE d = 0 -> "0" [] d = 1 -> "1" [] d = 2 -> "2" [] d = 3 -> "3" [] d = 4 -> "4"
      [] d = 5 -> "5" [] d = 6 -> "6" [] d = 7 -> "7" [] d = 8 -> "8" [] d = 9 -> "9"

RECURSIVE Sprint(_)
\* fmt.Sprint(n) of a non-negative int.
Sprint(n) == IF n < 10 THEN Digit(n) ELSE Sprint(n \div 10) \o Digit(n % 10)

\* strings.ToLower on the header names the configurations use.
ToLower(k) ==
    CASE k = "Content-Type" -> "content-type"
      [] k = "Cookie" -> "cookie"
      [] k = "X-Custom" -> "x-custom"
      [] OTHER -> k

\* strings.ToUpper on the method strings the configurations use.
ToUpper(m) ==
    CASE m = "post" -> "POST"
      [] m = "invalid_http_method" -> "INVALID_HTTP_METHOD"
      [] OTHER -> m

\* strings.Contains(contentType, sub) on the content types the configurations use.
Contains(contentType, sub) ==
    \/ contentType = sub
    \/ contentType = "application/json; charset=utf-8" /\ sub = "application/json"

\* base64.RawURLEncoding of the payloads the configurations use.
urlSafeB64Encode(data) ==
    CASE data = "alert(1)" -> "YWxlcnQoMSk"
      [] data = "{\"a\":\"1\"}" -> "eyJhIjoiMSJ9"
      [] data = "[{\"click\":{\"selector\":\"#b\"}}]" -> "W3siY2xpY2siOnsic2VsZWN0b3IiOiIjYiJ9fV0"
      [] data = "{}" -> "e30"

\* A map value encoding/json cannot marshal (a channel, a func).
Unmarshalable == "(chan)"

\* The keys of marshalled maps, in the byte order json.Marshal and
\* url.Values.Encode sort them by.
SortOrder == <<"a", "b">>

SortedKeys(m) == SelectSeq(SortOrder, LAMBDA k : k \in Keys(m))

JSONPair(k, v) == "\"" \o k \o "\":\"" \o v \o "\""

\* json.Marshal of a map[string]interface{} with string values: an error on
\* a value it cannot encode, else the object with its keys sorted.
JSONMarshal(m) ==
    IF \E k \in Keys(m) : m.kv[k] = Unmarshalable
    THEN [ok |-> FALSE, out |-> ""]
    ELSE [ok |-> TRUE, out |-> "{" \o Join([i \in 1..Len(SortedKeys(m)) |->
                                        JSONPair(SortedKeys(m)[i], m.kv[SortedKeys(m)[i]])], ",") \o "}"]

\* url.QueryEscape on the values the configurations use.
QueryEscape(v) == CASE v = "x y" -> "x+y" [] v = Unmarshalable -> "0xc000010000" [] OTHER -> v

FormPair(k, v) == QueryEscape(k) \o "=" \o QueryEscape(v)

\* values.Set(k, fmt.Sprint(v)) for each entry, then values.Encode().
FormEncode(m) ==
    Join([i \in 1..Len(SortedKeys(m)) |-> FormPair(SortedKeys(m)[i], m.kv[SortedKeys(m)[i]])], "&")

\* A configuration error: fmt.Errorf("%w: ...", ErrScrapeConfig) and the like.
ConfigErr(message) == [kind |-> "config", code |-> 0, msg |-> message]

\* An encoder's return value: (params, nil) or (nil, err).
EncOk(p) == [isNil |-> FALSE, params |-> p, err |-> Nil]

EncFail(e) == [isNil |-> TRUE, params |-> EmptyFn, err |-> e]

-----------------------------------------------------------------------------
(* Enumerated types (enums.go) *)

FormatEnum == {"json", "text", "markdown", "clean_html", "raw"}

FormatOptionEnum == {"no_links", "no_images", "only_content"}

ScreenshotFlagEnum ==
    {"load_images", "dark_mode", "block_banners", "print_media_format", "high_quality"}

HttpMethodEnum == {"GET", "POST", "PUT", "PATCH", "OPTIONS"}

ProxyPoolEnum == {"public_datacenter_pool", "public_residential_pool"}

ExtractionModelEnum ==
    {"article", "event", "food_recipe", "hotel", "hotel_listing", "job_listing",
     "job_posting", "organization", "product", "product_listing",
     "real_estate_property", "real_estate_property_listing", "review_list",
     "search_engine_results", "social_media_post", "software", "stock",
     "vehicle_ad", "vehicle_ad_listing"}

\* func (f Format) String(), and its likes: the value, or "invalid_...".
FormatString(f) == IF f \in FormatEnum THEN f ELSE "invalid_format"

FormatOptionString(f) == IF f \in FormatOptionEnum THEN f ELSE "invalid_format_option"

ScreenshotFlagString(f) == IF f \in ScreenshotFlagEnum THEN f ELSE "invalid_screenshot_flag"

HttpMethodString(f) == IF f \in HttpMethodEnum THEN f ELSE "invalid_http_method"

ExtractionModelString(f) == IF f \in ExtractionModelEnum THEN f ELSE "invalid_extraction_model"

\* strings.HasPrefix(s, "invalid") on the strings String() yields or the
\* configurations hold.
HasPrefixInvalid(str) ==
    str \in {"invalid_format", "invalid_format_option", "invalid_screenshot_flag",
             "invalid_http_method", "invalid_extraction_model", "invalid"}

\* IsValidEnumType(f): !strings.HasPrefix(f.String(), "invalid")
IsValidEnumType(str) == ~HasPrefixInvalid(str)

-----------------------------------------------------------------------------
(* ScrapeConfig: processBody *)

\* The zero ScrapeConfig with a URL.
BaseScrapeConfig ==
    [URL |-> "https://example.com", Method |-> "", Body |-> "", Data |-> NilMap,
     Headers |-> NilMap, Cookies |-> NilMap, Country |-> "", ProxyPool |-> "",
     RenderJS |-> FALSE, ASP |-> FALSE, Cache |-> FALSE, CacheTTL |-> 0,
     CacheClear |-> FALSE, Timeout |-> 0, Retry |-> FALSE, Session |-> "",
     SessionStickyProxy |-> FALSE, Tags |-> <<>>, Webhook |-> "", Debug |-> FALSE,
     SSL |-> FALSE, DNS |-> FALSE, CorrelationID |-> "", Format |-> "",
     FormatOptions |-> <<>>, ExtractionTemplate |-> "",
     ExtractionEphemeralTemplate |-> NilMap, ExtractionPrompt |-> "",
     ExtractionModel |-> "", WaitForSelector |-> "", RenderingWait |-> 0,
     AutoScroll |-> FALSE, Screenshots |-> NilMap, ScreenshotFlags |-> <<>>,
     JS |-> "", JSScenario |-> <<>>, OS |-> "", Lang |-> <<>>]

\* processBody's result: the configuration as it leaves it, and its error.
BodyResult(c, e) == [cfg |-> c, err |-> e]

\* if c.Body != "" and no "content-type" header: Headers["content-type"] = "text/plain".
DefaultTextPlain(c) ==
    IF c.Body # "" /\ "content-type" \notin Keys(c.Headers)
    THEN [c EXCEPT !.Headers = MapOf(Set(c.Headers.kv, "content-type", "text/plain"))]
    ELSE c

\* contentType, ok := c.Headers["content-type"]; the default is stored when absent.
DefaultFormContentType(c) ==
    IF "content-type" \notin Keys(c.Headers)
    THEN [c EXCEPT !.Headers =
              MapOf(Set(c.Headers.kv, "content-type", "application/x-www-form-urlencoded"))]
    ELSE c

\* The switch on contentType that serializes Data into Body.
SerializeData(c) ==
    LET contentType == c.Headers.kv["content-type"]
        json == JSONMarshal(c.Data)
    IN  IF Contains(contentType, "application/json")
        THEN IF json.ok
             THEN BodyResult(DefaultTextPlain([c EXCEPT !.Body = json.out]), Nil)
             ELSE BodyResult(c, [kind |-> "marshal", code |-> 0, msg |-> "json: unsupported type"])
        ELSE IF Contains(contentType, "application/x-www-form-urlencoded")
        THEN BodyResult(DefaultTextPlain([c EXCEPT !.Body = FormEncode(c.Data)]), Nil)
        ELSE BodyResult(c, ConfigErr("unsupported content-type for Data field"))

ProcessBodyIgnoringConflict(c) ==
    LET method == ToUpper(HttpMethodString(c.Method))
    IN  IF method \notin {"POST", "PUT", "PATCH"}
        THEN BodyResult(c, Nil)
        ELSE IF ~c.Data.isNil
        THEN SerializeData(DefaultFormContentType(c))
        ELSE BodyResult(DefaultTextPlain(c), Nil)

\* func (c *ScrapeConfig) processBody() error
ProcessBody(c) ==
    LET method == ToUpper(HttpMethodString(c.Method))
    IN  IF method \notin {"POST", "PUT", "PATCH"}
        THEN BodyResult(c, Nil)
        ELSE IF c.Body # "" /\ ~c.Data.isNil
        THEN BodyResult(c, ConfigErr("cannot set both Body and Data"))
        ELSE IF ~c.Data.isNil
        THEN SerializeData(DefaultFormContentType(c))
        ELSE BodyResult(DefaultTextPlain(c), Nil)

-----------------------------------------------------------------------------
(* ScrapeConfig: toAPIParams *)

\* JSON of one js_scenario step the configurations use.
StepJSON(step) == "{\"" \o step \o "\":{\"selector\":\"#b\"}}"

\* json.Marshal(c.JSScenario)
JSONMarshalScenario(steps) ==
    IF \E i \in DOMAIN steps : steps[i] = Unmarshalable
    THEN [ok |-> FALSE, out |-> ""]
    ELSE [ok |-> TRUE, out |-> "[" \o Join([i \in DOMAIN steps |-> StepJSON(steps[i])], ",") \o "]"]

RECURSIVE FirstEmptyValue(_, _)
\* The first entry a range in the given order finds with an empty value.
FirstEmptyValue(m, order) ==
    IF order = <<>> THEN <<>>
    ELSE IF m.kv[Head(order)] = "" THEN <<Head(order)>>
    ELSE FirstEmptyValue(m, Tail(order))

RECURSIVE FirstEmptyPair(_, _)
\* The first entry a range in the given order finds with an empty key or value.
FirstEmptyPair(m, order) ==
    IF order = <<>> THEN <<>>
    ELSE IF Head(order) = "" \/ m.kv[Head(order)] = "" THEN <<Head(order)>>
    ELSE FirstEmptyPair(m, Tail(order))

RECURSIVE SetScreenshots(_, _, _)
\* for name, value := range c.Screenshots { params.Set("screenshots[name]", value) }
SetScreenshots(p, m, order) ==
    IF order = <<>> THEN p
    ELSE SetScreenshots(Set(p, "screenshots[" \o Head(order) \o "]", m.kv[Head(order)]),
                        m, Tail(order))

RECURSIVE SetHeaders(_, _, _)
\* for key, value := range c.Headers { params.Set("headers[lower(key)]", value) }
SetHeaders(p, m, order) ==
    IF order = <<>> THEN p
    ELSE SetHeaders(Set(p, "headers[" \o ToLower(Head(order)) \o "]", m.kv[Head(order)]),
                    m, Tail(order))

LastCookieHeaderIgnored(m, order, acc) == acc

RECURSIVE LastCookieHeader(_, _, _)
\* for k, v := range c.Headers { if lower(k) == "cookie" { existingCookie = v } }
LastCookieHeader(m, order, acc) ==
    IF order = <<>> THEN acc
    ELSE LastCookieHeader(m, Tail(order),
                          IF ToLower(Head(order)) = "cookie" THEN m.kv[Head(order)] ELSE acc)

ValidFlags(flags) == SelectSeq(flags, LAMBDA f : IsValidEnumType(ScreenshotFlagString(f)))

RenderGateAlways(c) == TRUE

\* if c.RenderJS { ... }: the condition under which the browser block runs.
RenderGate(c) == c.RenderJS

\* The parameters the if c.RenderJS block sets.
RenderParams(c, p, sOrder) ==
    LET p1 == Set(p, "render_js", "true")
        p2 == SetIf(c.WaitForSelector # "", p1, "wait_for_selector", c.WaitForSelector)
        p3 == SetIf(c.RenderingWait > 0, p2, "rendering_wait", Sprint(c.RenderingWait))
        p4 == SetIf(c.AutoScroll, p3, "auto_scroll", "true")
        p5 == SetIf(c.JS # "", p4, "js", urlSafeB64Encode(c.JS))
        p6 == SetIf(Len(c.JSScenario) > 0, p5, "js_scenario",
                    urlSafeB64Encode(JSONMarshalScenario(c.JSScenario).out))
        p7 == SetScreenshots(p6, c.Screenshots, sOrder)
    IN  SetIf(Len(c.ScreenshotFlags) > 0, p7, "screenshot_flags",
              Join(ValidFlags(c.ScreenshotFlags), ","))

\* The parameters set between the render block and the format block.
PlainParams(c, p) ==
    LET p1 == SetIf(c.ASP, p, "asp", "true")
        p2 == SetIf(~c.Retry, p1, "retry", "false")
        p3 == SetIf(c.Cache, p2, "cache", "true")
        p4 == SetIf(c.Cache /\ c.CacheTTL > 0, p3, "cache_ttl", Sprint(c.CacheTTL))
        p5 == SetIf(c.Cache /\ c.CacheClear, p4, "cache_clear", "true")
        p6 == SetIf(c.Timeout > 0, p5, "timeout", Sprint(c.Timeout))
        p7 == SetIf(c.Debug, p6, "debug", "true")
        p8 == SetIf(c.SSL, p7, "ssl", "true")
        p9 == SetIf(c.DNS, p8, "dns", "true")
        p10 == SetIf(c.CorrelationID # "", p9, "correlation_id", c.CorrelationID)
        p11 == SetIf(Len(c.Tags) > 0, p10, "tags", Join(c.Tags, ","))
        p12 == SetIf(c.Webhook # "", p11, "webhook_name", c.Webhook)
        p13 == SetIf(c.Session # "", p12, "session", c.Session)
        p14 == SetIf(c.Session # "" /\ c.SessionStickyProxy, p13, "session_sticky_proxy", "true")
        p15 == SetIf(c.OS # "", p14, "os", c.OS)
    IN  SetIf(Len(c.Lang) > 0, p15, "lang", Join(c.Lang, ","))

\* formatVal: the format, and its options after a colon.
FormatVal(c) ==
    IF Len(c.FormatOptions) > 0
    THEN FormatString(c.Format) \o ":" \o Join(c.FormatOptions, ",")
    ELSE FormatString(c.Format)

\* The extraction parameters: the template, the ephemeral template (which
\* takes the same key), the prompt and the model, each when set.
ExtractionParams(c, p) ==
    LET p1 == SetIf(c.ExtractionTemplate # "", p, "extraction_template", c.ExtractionTemplate)
        p2 == SetIf(~c.ExtractionEphemeralTemplate.isNil, p1, "extraction_template",
                    "ephemeral:" \o urlSafeB64Encode(JSONMarshal(c.ExtractionEphemeralTemplate).out))
        p3 == SetIf(c.ExtractionPrompt # "", p2, "extraction_prompt", c.ExtractionPrompt)
    IN  SetIf(c.ExtractionModel # "", p3, "extraction_model", c.ExtractionModel)

\* The cookie block: Cookies joined in range order, after any Cookie header.
CookieParams(c, p, hOrder, cOrder) ==
    LET cookieHeader == Join([i \in DOMAIN cOrder |-> cOrder[i] \o "=" \o c.Cookies.kv[cOrder[i]]], "; ")
        existingCookie == LastCookieHeader(c.Headers, hOrder, "")
    IN  IF Len(cOrder) = 0 THEN p
        ELSE IF existingCookie # ""
        THEN Set(p, "headers[cookie]", existingCookie \o "; " \o cookieHeader)
        ELSE Set(p, "headers[cookie]", cookieHeader)

\* The url.Values of a configuration that passes every check.
ScrapeParams(c, sOrder, hOrder, cOrder) ==
    LET p1 == Set(EmptyFn, "url", c.URL)
        p2 == SetIf(c.Country # "", p1, "country", c.Country)
        p3 == SetIf(c.ProxyPool # "", p2, "proxy_pool", c.ProxyPool)
        p4 == IF RenderGate(c) THEN RenderParams(c, p3, sOrder) ELSE p3
        p5 == PlainParams(c, p4)
        p6 == SetIf(c.Format # "", p5, "format", FormatVal(c))
        p7 == ExtractionParams(c, p6)
        p8 == SetHeaders(p7, c.Headers, hOrder)
    IN  CookieParams(c, p8, hOrder, cOrder)

\* An error that wraps no configuration sentinel (json.Marshal, the validators).
PlainErr(message) == [kind |-> "plain", code |-> 0, msg |-> message]

\* The format options that are not valid, in slice order.
InvalidOptions(c) == SelectSeq(c.FormatOptions, LAMBDA o : ~IsValidEnumType(FormatOptionString(o)))

\* func (c *ScrapeConfig) toAPIParams() (url.Values, error); sOrder, hOrder
\* and cOrder are the orders in which this call's ranges visit Screenshots,
\* Headers and Cookies.
ScrapeToAPIParams(c, sOrder, hOrder, cOrder) ==
    LET badShot == FirstEmptyValue(c.Screenshots, sOrder)
        badHeader == FirstEmptyPair(c.Headers, hOrder)
        badCookie == FirstEmptyPair(c.Cookies, cOrder)
    IN  IF c.URL = ""
        THEN EncFail(ConfigErr("URL is required"))
        ELSE IF RenderGate(c) /\ Len(c.JSScenario) > 0 /\ ~JSONMarshalScenario(c.JSScenario).ok
        THEN EncFail(PlainErr("failed to marshal js_scenario"))
        ELSE IF RenderGate(c) /\ badShot # <<>>
        THEN EncFail(ConfigErr("screenshots[" \o badShot[1] \o "] require either a selector or fullpage"))
        ELSE IF c.Format # "" /\ ~IsValidEnumType(FormatString(c.Format))
        THEN EncFail(ConfigErr("invalid format: " \o FormatString(c.Format)))
        ELSE IF c.Format # "" /\ InvalidOptions(c) # <<>>
        THEN EncFail(ConfigErr("invalid format option: " \o FormatOptionString(InvalidOptions(c)[1])))
        ELSE IF c.ExtractionTemplate # "" /\ ~c.ExtractionEphemeralTemplate.isNil
        THEN EncFail(ConfigErr("cannot use both extraction_template and extraction_ephemeral_template"))
        ELSE IF ~c.ExtractionEphemeralTemplate.isNil /\ ~JSONMarshal(c.ExtractionEphemeralTemplate).ok
        THEN EncFail(PlainErr("failed to marshal extraction_ephemeral_template"))
        ELSE IF badHeader # <<>>
        THEN EncFail(ConfigErr("headers key and value cannot be empty, found key: " \o badHeader[1]
                               \o ", value: " \o c.Headers.kv[badHeader[1]]))
        ELSE IF badCookie # <<>>
        THEN EncFail(ConfigErr("cookies name and value cannot be empty, found name: " \o badCookie[1]
                               \o ", value: " \o c.Cookies.kv[badCookie[1]]))
        ELSE EncOk(ScrapeParams(c, sOrder, hOrder, cOrder))

-----------------------------------------------------------------------------
(* ScreenshotConfig: toAPIParams *)

BaseScreenshotConfig ==
    [URL |-> "https://example.com", Format |-> "", Capture |-> "", Resolution |-> "",
     Country |-> "", Timeout |-> 0, RenderingWait |-> 0, WaitForSelector |-> "",
     AutoScroll |-> FALSE, JS |-> "", Options |-> <<>>, Cache |-> FALSE, CacheTTL |-> 0,
     CacheClear |-> FALSE, Webhook |-> "", VisionDeficiencyType |-> ""]

ScreenshotConfigErr(message) == [kind |-> "screenshot_config", code |-> 0, msg |-> message]

ScreenshotParams(c) ==
    LET p1 == Set(EmptyFn, "url", c.URL)
        p2 == SetIf(c.Format # "", p1, "format", c.Format)
        p3 == SetIf(c.Capture # "", p2, "capture", c.Capture)
        p4 == SetIf(c.Resolution # "", p3, "resolution", c.Resolution)
        p5 == SetIf(c.Country # "", p4, "country", c.Country)
        p6 == SetIf(c.Timeout > 0, p5, "timeout", Sprint(c.Timeout))
        p7 == SetIf(c.RenderingWait > 0, p6, "rendering_wait", Sprint(c.RenderingWait))
        p8 == SetIf(c.WaitForSelector # "", p7, "wait_for_selector", c.WaitForSelector)
        p9 == SetIf(c.AutoScroll, p8, "auto_scroll", "true")
        p10 == SetIf(c.JS # "", p9, "js", urlSafeB64Encode(c.JS))
        p11 == SetIf(Len(c.Options) > 0, p10, "options", Join(c.Options, ","))
        p12 == SetIf(c.Cache, p11, "cache", "true")
        p13 == SetIf(c.Cache /\ c.CacheTTL > 0, p12, "cache_ttl", Sprint(c.CacheTTL))
        p14 == SetIf(c.Cache /\ c.CacheClear, p13, "cache_clear", "true")
        p15 == SetIf(c.Webhook # "", p14, "webhook_name", c.Webhook)
    IN  SetIf(c.VisionDeficiencyType # "", p15, "vision_deficiency", c.VisionDeficiencyType)

\* func (c *ScreenshotConfig) toAPIParams() (url.Values, error)
ScreenshotToAPIParams(c) ==
    IF c.URL = ""
    THEN EncFail(ScreenshotConfigErr("URL is required"))
    ELSE EncOk(ScreenshotParams(c))

-----------------------------------------------------------------------------
(* ExtractionConfig: the struct-tag validators and toAPIParams *)

\* A []byte: nil, or a (possibly empty) byte string.
NilBytes == [isNil |-> TRUE, bytes |-> ""]

BytesOf(b) == [isNil |-> FALSE, bytes |-> b]

BaseExtractionConfig ==
    [Body |-> BytesOf("<html>"), ContentType |-> "text/html", URL |-> "", Charset |-> "",
     ExtractionTemplate |-> "", ExtractionEphemeralTemplate |-> NilMap,
     ExtractionPrompt |-> "", ExtractionModel |-> "", IsDocumentCompressed |-> FALSE,
     DocumentCompressionFormat |-> "", Webhook |-> ""]

ExtractionConfigErr(message) == [kind |-> "extraction_config", code |-> 0, msg |-> message]

\* The fields of ExtractionConfig in declaration order, each with its tags.
ExtractionFields ==
    << [name |-> "Body", required |-> TRUE, exclusive |-> "", enum |-> FALSE],
       [name |-> "ContentType", required |-> TRUE, exclusive |-> "", enum |-> FALSE],
       [name |-> "URL", required |-> FALSE, exclusive |-> "", enum |-> FALSE],
       [name |-> "Charset", required |-> FALSE, exclusive |-> "", enum |-> FALSE],
       [name |-> "ExtractionTemplate", required |-> FALSE, exclusive |-> "extraction", enum |-> FALSE],
       [name |-> "ExtractionEphemeralTemplate", required |-> FALSE, exclusive |-> "extraction", enum |-> FALSE],
       [name |-> "ExtractionPrompt", required |-> FALSE, exclusive |-> "extraction", enum |-> FALSE],
       [name |-> "ExtractionModel", required |-> FALSE, exclusive |-> "extraction", enum |-> TRUE],
       [name |-> "IsDocumentCompressed", required |-> FALSE, exclusive |-> "", enum |-> FALSE],
       [name |-> "DocumentCompressionFormat", required |-> FALSE, exclusive |-> "", enum |-> FALSE],
       [name |-> "Webhook", required |-> FALSE, exclusive |-> "", enum |-> FALSE] >>

\* reflect.Value.IsZero of a field: a nil slice or map, "", or false.
IsZero(c, name) ==
    CASE name = "Body" -> c.Body.isNil
      [] name = "ExtractionEphemeralTemplate" -> c.ExtractionEphemeralTemplate.isNil
      [] name = "IsDocumentCompressed" -> ~c.IsDocumentCompressed
      [] OTHER -> c[name] = ""

\* func ValidateExclusiveFields(s interface{}) error: the second set field of
\* a group is reported against the first.
ValidateExclusiveFields(c) ==
    LET set == SelectSeq(ExtractionFields,
                         LAMBDA f : f.exclusive = "extraction" /\ ~IsZero(c, f.name))
    IN  IF Len(set) >= 2
        THEN PlainErr("fields " \o set[1].name \o " and " \o set[2].name \o " are mutually exclusive")
        ELSE Nil

\* func ValidateRequiredFields(s interface{}) error
ValidateRequiredFields(c) ==
    LET unset == SelectSeq(ExtractionFields, LAMBDA f : f.required /\ IsZero(c, f.name))
    IN  IF unset # <<>>
        THEN PlainErr("field '" \o unset[1].name \o "' is required but was not set")
        ELSE Nil

\* func ValidateEnums(s interface{}) error; ExtractionModel is the one
\* field tagged validate:"enum".
ValidateEnums(c) ==
    LET bad == SelectSeq(ExtractionFields,
                         LAMBDA f : /\ f.enum
                                    /\ ~IsZero(c, f.name)
                                    /\ ~IsValidEnumType(ExtractionModelString(c[f.name])))
    IN  IF bad # <<>>
        THEN PlainErr("field '" \o bad[1].name \o "' contains an invalid enum value: '"
                      \o ExtractionModelString(c[bad[1].name]) \o "'")
        ELSE Nil

ExtractionConfigParams(c) ==
    LET p1 == Set(EmptyFn, "content_type", c.ContentType)
        p2 == SetIf(c.URL # "", p1, "url", c.URL)
        p3 == SetIf(c.Charset # "", p2, "charset", c.Charset)
        p4 == SetIf(c.ExtractionTemplate # "", p3, "extraction_template", c.ExtractionTemplate)
        p5 == SetIf(~c.ExtractionEphemeralTemplate.isNil, p4, "extraction_template",
                    "ephemeral:" \o urlSafeB64Encode(JSONMarshal(c.ExtractionEphemeralTemplate).out))
        p6 == SetIf(c.ExtractionPrompt # "", p5, "extraction_prompt", c.ExtractionPrompt)
        p7 == SetIf(c.ExtractionModel # "", p6, "extraction_model", c.ExtractionModel)
    IN  SetIf(c.Webhook # "", p7, "webhook_name", c.Webhook)

\* func (c *ExtractionConfig) toAPIParams() (url.Values, error)
ExtractionToAPIParams(c) ==
    IF ValidateExclusiveFields(c) # Nil THEN EncFail(ValidateExclusiveFields(c))
    ELSE IF ValidateRequiredFields(c) # Nil THEN EncFail(ValidateRequiredFields(c))
    ELSE IF ValidateEnums(c) # Nil THEN EncFail(ValidateEnums(c))
    ELSE IF Len(c.Body.bytes) = 0 THEN EncFail(ExtractionConfigErr("Body is required"))
    ELSE IF c.ContentType = "" THEN EncFail(ExtractionConfigErr("ContentType is required"))
    ELSE IF c.ExtractionTemplate # "" /\ ~c.ExtractionEphemeralTemplate.isNil
    THEN EncFail(ExtractionConfigErr("cannot use both extraction_template and extraction_ephemeral_template"))
    ELSE IF ~c.ExtractionEphemeralTemplate.isNil /\ ~JSONMarshal(c.ExtractionEphemeralTemplate).ok
    THEN EncFail(PlainErr("failed to marshal extraction_ephemeral_template"))
    ELSE EncOk(ExtractionConfigParams(c))

-----------------------------------------------------------------------------
(* The configurations the client is called with *)

Ops == {"scrape", "screenshot", "extract", "account"}

\* The four extraction-strategy fields, over unset and set values.
StrategyValues ==
    [ExtractionTemplate : {"", "tpl"},
     ExtractionEphemeralTemplate :
         {NilMap, MapOf(EmptyFn), MapOf([k \in {"a"} |-> "1"]), MapOf([k \in {"a"} |-> Unmarshalable])},
     ExtractionPrompt : {"", "prompt"},
     ExtractionModel : {"", "product", "bogus"}]

WithStrategy(c, v) ==
    [c EXCEPT !.ExtractionTemplate = v.ExtractionTemplate,
              !.ExtractionEphemeralTemplate = v.ExtractionEphemeralTemplate,
              !.ExtractionPrompt = v.ExtractionPrompt,
              !.ExtractionModel = v.ExtractionModel]

ContentTypeHeaders ==
    {NilMap}
    \cup {MapOf([k \in {"content-type"} |-> t]) :
            t \in {"application/json", "application/json; charset=utf-8",
                   "application/x-www-form-urlencoded", "text/xml"}}
    \cup {MapOf([k \in {"Content-Type"} |-> "application/json"])}

DataValues ==
    {NilMap, MapOf(EmptyFn), MapOf([k \in {"a"} |-> "1"]),
     MapOf([k \in {"a", "b"} |-> IF k = "a" THEN "x y" ELSE "2"]),
     MapOf([k \in {"a"} |-> Unmarshalable])}

HeaderValues ==
    {NilMap, MapOf([k \in {"X-Custom"} |-> "v"]), MapOf([k \in {"Cookie"} |-> "a=1"]),
     MapOf([k \in {"Cookie", "cookie"} |-> IF k = "Cookie" THEN "a=1" ELSE "b=2"]),
     MapOf([k \in {""} |-> "v"]), MapOf([k \in {"X-Custom"} |-> ""])}

CookieValues ==
    {NilMap, MapOf(EmptyFn), MapOf([k \in {"sid"} |-> "1"]),
     MapOf([k \in {"sid", "lang"} |-> IF k = "sid" THEN "1" ELSE "en"]),
     MapOf([k \in {"sid"} |-> ""]), MapOf([k \in {""} |-> "x"])}

ScreenshotValues ==
    {NilMap, MapOf([k \in {"main"} |-> "fullpage"]), MapOf([k \in {"main"} |-> ""]),
     MapOf([k \in {"a", "b"} |-> IF k = "a" THEN "" ELSE "#sel"])}

\* ScrapeConfig values: each family varies the fields one part of
\* processBody / toAPIParams reads, the others at their zero value; the last
\* one breaks several validation rules at once.
ScrapeConfigs ==
    {[BaseScrapeConfig EXCEPT !.URL = ""]}
    \cup {WithStrategy(BaseScrapeConfig, v) : v \in StrategyValues}
    \cup {[BaseScrapeConfig EXCEPT !.Method = x[1], !.Body = x[2], !.Data = x[3], !.Headers = x[4]] :
            x \in {"", "GET", "POST", "post", "DELETE"} \X {"", "raw"} \X DataValues \X ContentTypeHeaders}
    \cup {[BaseScrapeConfig EXCEPT !.Headers = x[1], !.Cookies = x[2]] :
            x \in HeaderValues \X CookieValues}
    \cup {[BaseScrapeConfig EXCEPT !.RenderJS = x[1], !.JSScenario = x[2], !.Screenshots = x[3],
                                   !.ScreenshotFlags = x[4], !.JS = "alert(1)",
                                   !.WaitForSelector = "#main", !.RenderingWait = 15,
                                   !.AutoScroll = TRUE] :
            x \in BOOLEAN \X {<<>>, <<"click">>, <<Unmarshalable>>} \X ScreenshotValues
                  \X {<<>>, <<"dark_mode">>, <<"bogus">>, <<"dark_mode", "bogus">>}}
    \cup {[BaseScrapeConfig EXCEPT !.Format = x[1], !.FormatOptions = x[2]] :
            x \in {"", "json", "markdown", "bogus"}
                  \X {<<>>, <<"no_links">>, <<"no_links", "bogus">>, <<"bogus">>}}
    \cup {[BaseScrapeConfig EXCEPT !.Country = "us", !.ProxyPool = x[1], !.ASP = TRUE,
                                   !.Retry = x[2], !.Cache = x[2], !.CacheTTL = 3600,
                                   !.CacheClear = TRUE, !.Timeout = 30000, !.Debug = TRUE,
                                   !.SSL = TRUE, !.DNS = TRUE, !.CorrelationID = "c-1",
                                   !.Tags = <<"t1", "t2">>, !.Webhook = "hook",
                                   !.Session = x[3], !.SessionStickyProxy = TRUE,
                                   !.OS = "linux", !.Lang = <<"en", "fr">>] :
            x \in {"", "public_residential_pool", "bogus_pool"} \X BOOLEAN \X {"", "s-1"}}
    \cup {[BaseScrapeConfig EXCEPT !.URL = x[1], !.Method = "POST", !.Body = "raw", !.Data = x[2],
                                   !.ExtractionTemplate = x[3],
                                   !.ExtractionEphemeralTemplate = MapOf([k \in {"a"} |-> "1"]),
                                   !.Headers = x[4]] :
            x \in {"", "https://example.com"} \X {NilMap, MapOf([k \in {"a"} |-> "1"])}
                  \X {"", "tpl"} \X {NilMap, MapOf([k \in {"X-Custom"} |-> ""])}}

ScreenshotConfigs ==
    {[BaseScreenshotConfig EXCEPT !.URL = x[1], !.Format = x[2], !.Options = x[3], !.Cache = x[4],
                                  !.CacheTTL = 60, !.JS = x[5], !.Timeout = 30000] :
        x \in {"", "https://example.com"} \X {"", "png", "bogus"}
              \X {<<>>, <<"load_images", "dark_mode">>} \X BOOLEAN \X {"", "alert(1)"}}

ExtractionConfigs ==
    {WithStrategy([BaseExtractionConfig EXCEPT !.Body = x[1], !.ContentType = x[2]], v) :
        x \in ({NilBytes, BytesOf(""), BytesOf("<html>")} \X {"", "text/html"}),
        v \in StrategyValues}

\* Client.Account takes no configuration.
NoConfig == [URL |-> ""]

ConfigsOf(o) ==
    CASE o = "scrape" -> ScrapeConfigs
      [] o = "screenshot" -> ScreenshotConfigs
      [] o = "extract" -> ExtractionConfigs
      [] o = "account" -> {NoConfig}

-----------------------------------------------------------------------------
(* Client.Scrape, Client.Screenshot, Client.Extract *)

defaultRetries == 3

\* c.key
APIKey == "KEY"

\* The references a scrape result embeds: result.Result.Screenshots (name to
\* URL) and the Content of result.Result.BrowserData.Attachments.
Refs(screenshots, attachments) == [screenshots |-> screenshots, attachments |-> attachments]

NoRefs == Refs(EmptyFn, <<>>)

NilResult == [kind |-> "nil", format |-> "", content |-> "", refs |-> NoRefs]

Result(kind, format, content) == [kind |-> kind, format |-> format, content |-> content, refs |-> NoRefs]

NoRequest == [method |-> "", path |-> "", query |-> EmptyFn, body |-> ""]

\* toAPIParams has not been called.
NotCalled == [isNil |-> TRUE, params |-> EmptyFn, err |-> [kind |-> "not_called", code |-> 0, msg |-> ""]]

\* A Go int (64 bits, two's complement) as four 16-bit limbs, high limb first.
Limb == 65536

Int64(l3, l2, l1, l0) == <<l3, l2, l1, l0>>

\* The int of a natural number below 2^31.
ToInt64(n) == Int64(0, 0, n \div Limb, n % Limb)

IsNegative64(x) == x[1] >= Limb \div 2

\* x * k on the limbs of x, for 0 <= k < 2^15: the low 64 bits, and what
\* was carried out of them.
MulLimbs(x, k) ==
    LET t0 == x[4] * k
        t1 == x[3] * k + t0 \div Limb
        t2 == x[2] * k + t1 \div Limb
        t3 == x[1] * k + t2 \div Limb
    IN  [limbs |-> Int64(t3 % Limb, t2 % Limb, t1 % Limb, t0 % Limb), carry |-> t3 \div Limb]

\* Go's x * k on ints: the product, wrapped to 64 bits.
Mul64(x, k) == MulLimbs(x, k).limbs

\* The fields of a decoded body that no scrape result fills.
NoResultBody ==
    [success |-> FALSE, status |-> "", format |-> "", content |-> "", code |-> 0, refs |-> NoRefs]

\* No large-object fetch was made.
NoFetch == [url |-> "", key |-> "", outcome |-> "none"]

NoBody == [form |-> "none", result |-> NoResultBody]

NoHeader == [form |-> "absent", secs |-> ToInt64(0), offsetMs |-> 0]

NoDetail == [retryAfterMs |-> ToInt64(0), hint |-> ""]

ClientIdle ==
    /\ op = "none" /\ config = NoConfig /\ config0 = NoConfig /\ opPc = "idle"
    /\ pbErr = Nil /\ enc = NotCalled /\ req = NoRequest
    /\ opResult = NilResult /\ opErr = Nil /\ directSends = 0 /\ loFetch = NoFetch
    /\ respBody = NoBody /\ respRetryAfter = NoHeader /\ errDetail = NoDetail

\* return result, err
OpReturn(result, err) ==
    /\ opPc' = "done" /\ opResult' = result /\ opErr' = err

\* http.NewRequest(method, c.host + path + "?" + params.Encode(), body) after
\* params.Set("key", c.key).
Request(method, path, params, body) ==
    [method |-> method, path |-> path, query |-> Set(params, "key", APIKey), body |-> body]

\* fetchWithRetry(c.httpClient, req, defaultRetries, defaultDelay) is entered.
OpSend(request, getBody) ==
    /\ req' = request /\ opPc' = "fetch"
    /\ origBody' = request.body
    /\ FwrEnter(defaultRetries, getBody)
    /\ UNCHANGED <<sends, sleeps, closes, opResult, opErr>>

\* The method of the scrape request: GET unless config.Method is set.
ScrapeMethod(c) == IF c.Method # "" THEN ToUpper(HttpMethodString(c.Method)) ELSE "GET"

ScrapePreparedSkippingBodyCheck(c, sOrder, hOrder, cOrder) ==
    LET pb == ProcessBody(c)
        e == ScrapeToAPIParams(pb.cfg, sOrder, hOrder, cOrder)
    IN  [cfg |-> pb.cfg, pbErr |-> pb.err, enc |-> e, err |-> e.err]

\* Scrape up to the point where the request is built: processBody, then
\* toAPIParams, returning at the first error.
ScrapePrepared(c, sOrder, hOrder, cOrder) ==
    LET pb == ProcessBody(c)
        e == ScrapeToAPIParams(pb.cfg, sOrder, hOrder, cOrder)
    IN  IF pb.err # Nil
        THEN [cfg |-> pb.cfg, pbErr |-> pb.err, enc |-> NotCalled, err |-> pb.err]
        ELSE [cfg |-> pb.cfg, pbErr |-> Nil, enc |-> e, err |-> e.err]

\* Scrape(config), from entry to the call of fetchWithRetry or the early return.
ScrapeCall ==
    /\ opPc = "call" /\ op = "scrape"
    /\ \E sOrder \in Orders(Keys(ProcessBody(config).cfg.Screenshots)),
          hOrder \in Orders(Keys(ProcessBody(config).cfg.Headers)),
          cOrder \in Orders(Keys(ProcessBody(config).cfg.Cookies)) :
          LET prep == ScrapePrepared(config, sOrder, hOrder, cOrder)
          IN  /\ config' = prep.cfg /\ pbErr' = prep.pbErr /\ enc' = prep.enc
              /\ IF prep.err # Nil
                 THEN /\ OpReturn(NilResult, prep.err)
                      /\ UNCHANGED <<req, fwrVars>>
                 ELSE OpSend(Request(ScrapeMethod(prep.cfg), "/scrape", prep.enc.params, prep.cfg.Body),
                             "ok")
    /\ UNCHANGED <<op, config0, directSends, loFetch, respVars, poolVars, lazyVars>>

\* Screenshot(config), likewise; the request has no body.
ScreenshotCall ==
    /\ opPc = "call" /\ op = "screenshot"
    /\ LET e == ScreenshotToAPIParams(config)
       IN  /\ enc' = e
           /\ IF e.err # Nil
              THEN /\ OpReturn(NilResult, e.err)
                   /\ UNCHANGED <<req, fwrVars>>
              ELSE OpSend(Request("GET", "/screenshot", e.params, ""), "none")
    /\ UNCHANGED <<op, config, config0, pbErr, directSends, loFetch, respVars, poolVars, lazyVars>>

\* Extract(config), likewise; the body is config.Body.
ExtractCall ==
    /\ opPc = "call" /\ op = "extract"
    /\ LET e == ExtractionToAPIParams(config)
       IN  /\ enc' = e
           /\ IF e.err # Nil
              THEN /\ OpReturn(NilResult, e.err)
                   /\ UNCHANGED <<req, fwrVars>>
              ELSE OpSend(Request("POST", "/extraction", e.params, config.Body.bytes), "ok")
    /\ UNCHANGED <<op, config, config0, pbErr, directSends, loFetch, respVars, poolVars, lazyVars>>

\* fetchWithRetry has returned to the operation.
Fetched == opPc = "fetch" /\ fwrPc = "returned"

\* What the rest of an operation leaves alone.
afterCallVars == <<op, config, config0, pbErr, enc, req, fwrVars, poolVars, lazyVars>>

\* if err != nil { return nil, err }
OpFetchFailed ==
    /\ Fetched /\ fwrErr # Nil
    /\ OpReturn(NilResult, fwrErr)
    /\ UNCHANGED <<afterCallVars, directSends, loFetch, respVars>>

\* io.ReadAll(resp.Body) fails.
OpReadFailed ==
    /\ Fetched /\ fwrErr = Nil
    /\ OpReturn(NilResult, PlainErr("failed to read response body"))
    /\ UNCHANGED <<afterCallVars, directSends, loFetch, respVars>>

\* Bodies of non-200 responses: not JSON, a JSON error object with a
\* message, a scrape result carrying result.error.
ErrorBodies == {"unparseable", "message", "result_error"}

\* func (c *Client) handleAPIErrorResponse(resp, body) error
HandleAPIErrorResponse(status, body) ==
    [kind |-> "apierr", code |-> status,
     msg |-> CASE body = "result_error" -> "upstream failed"
               [] body = "message" -> "quota exceeded"
               [] OTHER -> "API returned status " \o Sprint(status)]

\* A decoded error body, by its form.
ErrorBody(form) == [form |-> form, result |-> NoResultBody]

\* A Retry-After header holding decimal digits strconv.Atoi accepts.
SecondsHeader(secs) == [form |-> "int", secs |-> secs, offsetMs |-> 0]

\* A Retry-After header holding an HTTP-date offsetMs milliseconds from now.
DateHeader(offsetMs) == [form |-> "date", secs |-> ToInt64(0), offsetMs |-> offsetMs]

\* The Retry-After headers a response may carry: none; seconds (0, 2, 120,
\* 9223372036854776, 9223372036854775807); "-1"; digits beyond the range of
\* int; an HTTP-date in the past, now, or ahead; anything else.
RetryAfterHeaders ==
    {NoHeader}
    \cup {SecondsHeader(x) : x \in {ToInt64(0), ToInt64(2), ToInt64(120),
                                    Int64(32, 50331, 42467, 21496),
                                    Int64(32767, 65535, 65535, 65535)}}
    \cup {[form |-> f, secs |-> ToInt64(0), offsetMs |-> 0] : f \in {"negative", "out_of_range", "garbage"}}
    \cup {DateHeader(d) : d \in {0 - 5000, 0, 3000}}

\* The Retry-After block of handleAPIErrorResponse: secs * 1000 when Atoi
\* succeeds with secs >= 0, else the time until the date (0 when past) when
\* http.ParseTime succeeds, else RetryAfterMs stays 0.
ParseRetryAfter(ra) ==
    IF ra.form = "int" THEN Mul64(ra.secs, 1000)
    ELSE IF ra.form = "date" THEN (IF ra.offsetMs < 0 THEN ToInt64(0) ELSE ToInt64(ra.offsetMs))
    ELSE ToInt64(0)

\* apiErr.RetryAfterMs as handleAPIErrorResponse leaves it: the early return
\* for a body with result.error never reads the header.
RetryAfterMs(body, ra) ==
    IF body = "result_error" THEN ToInt64(0) ELSE ParseRetryAfter(ra)

\* apiErr.Hint: the switch on statusCode (the modelled bodies hold neither
\* SCREENSHOT nor EXTRACTION).
Hint(status, body) ==
    IF body = "result_error" THEN ""
    ELSE CASE status = 401 -> "Provide a valid API key via ?key=... or Bearer token (cloud mode)."
           [] status = 429 -> "Back off and retry after the indicated delay, or reduce concurrency/scope."
           [] OTHER -> ""

\* if resp.StatusCode != http.StatusOK { return nil, c.handleAPIErrorResponse(...) }
OpStatusError ==
    /\ Fetched /\ fwrErr = Nil /\ fwrResp.code # 200
    /\ \E body \in ErrorBodies, ra \in RetryAfterHeaders :
          /\ OpReturn(NilResult, HandleAPIErrorResponse(fwrResp.code, body))
          /\ respBody' = ErrorBody(body)
          /\ respRetryAfter' = ra
          /\ errDetail' = [retryAfterMs |-> RetryAfterMs(body, ra), hint |-> Hint(fwrResp.code, body)]
    /\ UNCHANGED <<afterCallVars, directSends, loFetch>>

\* The references the modelled results embed: none; a screenshot and an
\* attachment; two screenshots, one with a query string of its own.
ResultRefs ==
    {NoRefs,
     Refs([n \in {"main"} |-> "https://api.scrapfly.io/shot/main.png"], <<"https://api.scrapfly.io/att/1">>),
     Refs([n \in {"main", "footer"} |->
              IF n = "main" THEN "https://api.scrapfly.io/shot/main.png"
              ELSE "https://api.scrapfly.io/shot/footer.png?v=2"], <<>>)}

\* result.Result.Content of a DONE result: the document, or for the formats
\* clob and blob the URL the document is to be fetched from.
ResultContent(format) ==
    CASE format = "clob" -> "https://api.scrapfly.io/scrape/clob/1"
      [] format = "blob" -> "https://api.scrapfly.io/scrape/blob/1"
      [] OTHER -> "<html>inline</html>"

\* The values of result.Result.Status the modelled results carry.
ResultStatuses ==
    {"DONE", "PENDING", "ERR::SCRAPE::BAD_UPSTREAM_RESPONSE", "ERR::PROXY::POOL_NOT_FOUND",
     "ERR::ASP::SHIELD_ERROR", "ERR::SCHEDULE::DISABLED", "ERR::WEBHOOK::DISABLED",
     "ERR::SESSION::CONCURRENT_ACCESS", "ERR::THROTTLE::MAX_REQUEST_RATE_EXCEEDED"}

\* The values of result.Result.StatusCode the modelled results carry.
ResultStatusCodes == {200, 399, 400, 499, 500, 600}

\* The scrape results a 200 response can carry, by the fields Scrape reads.
ScrapeBodies ==
    {[success |-> TRUE, status |-> "DONE", format |-> f, content |-> ResultContent(f), code |-> 200,
      refs |-> x] : f \in {"text", "clob", "blob"}, x \in ResultRefs}
    \cup [success : BOOLEAN, status : ResultStatuses, format : {"text"}, content : {""},
          code : ResultStatusCodes, refs : {NoRefs}]

\* strings.Split(status, "::") on the statuses the results carry.
SplitStatus(status) ==
    CASE status = "ERR::SCRAPE::BAD_UPSTREAM_RESPONSE" -> <<"ERR", "SCRAPE", "BAD_UPSTREAM_RESPONSE">>
      [] status = "ERR::PROXY::POOL_NOT_FOUND" -> <<"ERR", "PROXY", "POOL_NOT_FOUND">>
      [] status = "ERR::ASP::SHIELD_ERROR" -> <<"ERR", "ASP", "SHIELD_ERROR">>
      [] status = "ERR::SCHEDULE::DISABLED" -> <<"ERR", "SCHEDULE", "DISABLED">>
      [] status = "ERR::WEBHOOK::DISABLED" -> <<"ERR", "WEBHOOK", "DISABLED">>
      [] status = "ERR::SESSION::CONCURRENT_ACCESS" -> <<"ERR", "SESSION", "CONCURRENT_ACCESS">>
      [] status = "ERR::THROTTLE::MAX_REQUEST_RATE_EXCEEDED" -> <<"ERR", "THROTTLE", "MAX_REQUEST_RATE_EXCEEDED">>
      [] OTHER -> <<status>>

ResourceThirdSegment(status) ==
    IF Len(SplitStatus(status)) > 2 THEN SplitStatus(status)[3] ELSE ""

\* if parts := strings.Split(status, "::"); len(parts) > 1 { resource := parts[1] }:
\* the second segment, "" when there is none.
Resource(status) ==
    IF Len(SplitStatus(status)) > 1 THEN SplitStatus(status)[2] ELSE ""

\* The switch on resource: the sentinel of the subsystem, else the generic one.
ResourceSentinel(resource) ==
    CASE resource = "SCRAPE" -> "ErrScrapeFailed"
      [] resource = "PROXY" -> "ErrProxyFailed"
      [] resource = "ASP" -> "ErrASPBypassFailed"
      [] resource = "SCHEDULE" -> "ErrScheduleFailed"
      [] resource = "WEBHOOK" -> "ErrWebhookFailed"
      [] resource = "SESSION" -> "ErrSessionFailed"
      [] OTHER -> "ErrUnhandledAPIResponse"

\* func (c *Client) createErrorFromResult(result *ScrapeResult) error: the
\* sentinel wrapped, on an APIError carrying result.Result.StatusCode.
CreateErrorFromResult(r) ==
    LET sentinel ==
            IF ~r.success /\ r.code >= 400 /\ r.code < 500 THEN "ErrUpstreamClient"
            ELSE IF ~r.success /\ r.code >= 500 THEN "ErrUpstreamServer"
            ELSE ResourceSentinel(Resource(r.status))
    IN  [kind |-> sentinel, code |-> r.code, msg |-> "scrape failed with status: " \o r.status]

IsDoneIgnoringSuccess(r) == r.status = "DONE"

\* if result.Result.Success && result.Result.Status == "DONE"
IsDone(r) == r.success /\ r.status = "DONE"

\* The decoded body of a 200 response to Scrape.
ResultBody(r) == [form |-> "result", result |-> r]

\* json.Unmarshal(bodyBytes, &result) fails.
ScrapeUnmarshalFailed ==
    /\ Fetched /\ fwrErr = Nil /\ fwrResp.code = 200 /\ op = "scrape"
    /\ OpReturn(NilResult, PlainErr("failed to unmarshal scrape result"))
    /\ UNCHANGED <<afterCallVars, directSends, loFetch, respVars>>

\* screenshot.URL + "?key=" + c.key, attachment.Content + "?key=" + c.key
AddKey(ref) == ref \o "?key=" \o APIKey

\* The two loops that add the API key to the screenshot URLs and to the
\* attachment contents of the result.
RewriteRefs(refs) ==
    Refs([n \in DOMAIN refs.screenshots |-> AddKey(refs.screenshots[n])],
         [i \in DOMAIN refs.attachments |-> AddKey(refs.attachments[i])])

\* return &result, nil
ScrapeResult(format, content, refs) ==
    [kind |-> "scrape", format |-> format, content |-> content, refs |-> RewriteRefs(refs)]

\* result.Result.Success && result.Result.Status == "DONE", content inline.
ScrapeSucceeded ==
    /\ Fetched /\ fwrErr = Nil /\ fwrResp.code = 200 /\ op = "scrape"
    /\ \E r \in ScrapeBodies :
          /\ IsDone(r) /\ r.format \notin {"clob", "blob"}
          /\ respBody' = ResultBody(r)
          /\ OpReturn(ScrapeResult(r.format, r.content, r.refs), Nil)
    /\ UNCHANGED <<afterCallVars, directSends, loFetch, respRetryAfter, errDetail>>

\* What handleLargeObjects may meet: a content URL url.Parse rejects, a failed
\* c.httpClient.Do, a non-200 answer, an unreadable body, the content.
LargeObjectOutcomes == {"bad_url", "transport", "status", "unreadable", "ok"}

\* fmt.Errorf(message + ": %w", err): the error wraps err.
Wrap(message, err) ==
    [kind |-> "plain", code |-> 0, msg |-> message \o ": " \o err.msg, cause |-> err]

\* The error handleLargeObjects returns, Nil on success: url.Parse's error,
\* c.httpClient.Do's error, the error made for a status other than 200, the
\* wrapped io.ReadAll error.
HandleLargeObjectsErr(outcome) ==
    CASE outcome = "ok" -> Nil
      [] outcome = "bad_url" -> PlainErr("parse: invalid URL")
      [] outcome = "transport" -> TransportErr
      [] outcome = "status" -> PlainErr("failed to fetch large object: status")
      [] outcome = "unreadable" -> Wrap("failed to read response", PlainErr("unexpected EOF"))

\* fmt.Errorf("failed to fetch large object: %w", err) in Client.Scrape.
LargeObjectErr(outcome) ==
    IF outcome = "ok" THEN Nil
    ELSE Wrap("failed to fetch large object", HandleLargeObjectsErr(outcome))

LargeObjectFormatKept(format) == format

\* The format handleLargeObjects reports for the fetched content.
LargeObjectFormat(format) == IF format = "clob" THEN "text" ELSE "binary"

\* The document the large-object URL serves.
LargeObjectBody(contentURL) == "body of " \o contentURL

\* The GET handleLargeObjects sends: the content URL with params.Set("key",
\* c.APIKey()), and what came of it.
LargeObjectFetch(contentURL, outcome) ==
    [url |-> contentURL, key |-> APIKey, outcome |-> outcome]

\* A DONE result whose format is clob or blob: the content is fetched with
\* one c.httpClient.Do call.
ScrapeLargeObject ==
    /\ Fetched /\ fwrErr = Nil /\ fwrResp.code = 200 /\ op = "scrape"
    /\ \E r \in ScrapeBodies, outcome \in LargeObjectOutcomes :
          /\ IsDone(r) /\ r.format \in {"clob", "blob"}
          /\ respBody' = ResultBody(r)
          /\ directSends' = IF outcome = "bad_url" THEN directSends ELSE directSends + 1
          /\ loFetch' = LargeObjectFetch(r.content, outcome)
          /\ IF outcome = "ok"
             THEN OpReturn(ScrapeResult(LargeObjectFormat(r.format), LargeObjectBody(r.content),
                                        r.refs), Nil)
             ELSE OpReturn(NilResult, LargeObjectErr(outcome))
    /\ UNCHANGED <<afterCallVars, respRetryAfter, errDetail>>

\* return nil, c.createErrorFromResult(&result)
ScrapeUnsuccessful ==
    /\ Fetched /\ fwrErr = Nil /\ fwrResp.code = 200 /\ op = "scrape"
    /\ \E r \in ScrapeBodies :
          /\ ~IsDone(r)
          /\ respBody' = ResultBody(r)
          /\ OpReturn(NilResult, CreateErrorFromResult(r))
    /\ UNCHANGED <<afterCallVars, directSends, loFetch, respRetryAfter, errDetail>>

\* return newScreenshotResult(resp, bodyBytes)
ScreenshotSucceeded ==
    /\ Fetched /\ fwrErr = Nil /\ fwrResp.code = 200 /\ op = "screenshot"
    /\ OpReturn(Result("screenshot", "image", "inline"), Nil)
    /\ UNCHANGED <<afterCallVars, directSends, loFetch, respVars>>

\* json.Unmarshal(bodyBytes, &result) fails in Extract.
ExtractUnmarshalFailed ==
    /\ Fetched /\ fwrErr = Nil /\ fwrResp.code = 200 /\ op = "extract"
    /\ OpReturn(NilResult, PlainErr("failed to unmarshal extraction result"))
    /\ UNCHANGED <<afterCallVars, directSends, loFetch, respVars>>

\* return &result, nil
ExtractSucceeded ==
    /\ Fetched /\ fwrErr = Nil /\ fwrResp.code = 200 /\ op = "extract"
    /\ OpReturn(Result("extraction", "json", "inline"), Nil)
    /\ UNCHANGED <<afterCallVars, directSends, loFetch, respVars>>

-----------------------------------------------------------------------------
(* Screenshot.Image and Attachment.Data: the lazily fetched bytes *)

\* No call has returned yet.
NoReturn == [bytes |-> NilBytes, err |-> [kind |-> "none", code |-> 0, msg |-> ""]]

\* No call has returned a nil error yet.
NoFirst == [bytes |-> NilBytes, gets |-> -1]

\* The bodies the URL is answered with; the empty one included.
Bodies == {"", "PNG1", "PNG2"}

\* What io.ReadAll has read of a body when the read fails part-way.
PartialReads == {"", "PN"}

\* The error of http.Get, and the error of io.ReadAll.
GetErr == [kind |-> "neterr", code |-> 0, msg |-> "get"]

ReadErr == [kind |-> "plain", code |-> 0, msg |-> "unexpected EOF"]

LazyIdle ==
    /\ lazyKind = "none" /\ cache = NilBytes /\ lazyRet = NoReturn
    /\ lazyCalls = 0 /\ httpGets = 0 /\ okFetches = 0
    /\ firstOk = NoFirst /\ lastBody = ""

IsCachedNever(c) == FALSE

\* if s.image != nil / if a.data != nil
IsCached(c) == ~c.isNil

\* return bytes, err: the call counts, and the first nil-error return is kept.
LazyReturn(bytes, err, gets) ==
    /\ lazyRet' = [bytes |-> bytes, err |-> err]
    /\ lazyCalls' = lazyCalls + 1
    /\ firstOk' = IF err = Nil /\ firstOk = NoFirst
                  THEN [bytes |-> bytes, gets |-> gets] ELSE firstOk

\* return s.image, nil: the cached bytes, no request.
LazyCached ==
    /\ lazyKind # "none" /\ lazyCalls < MaxCalls
    /\ IsCached(cache)
    /\ LazyReturn(cache, Nil, httpGets)
    /\ UNCHANGED <<lazyKind, cache, httpGets, okFetches, lastBody, nonLazyVars>>

\* http.Get fails: return nil, err.
LazyGetFailed ==
    /\ lazyKind # "none" /\ lazyCalls < MaxCalls
    /\ ~IsCached(cache)
    /\ httpGets' = httpGets + 1
    /\ LazyReturn(NilBytes, GetErr, httpGets + 1)
    /\ UNCHANGED <<lazyKind, cache, okFetches, lastBody, nonLazyVars>>

\* s.image, err = io.ReadAll(resp.Body) with err != nil: io.ReadAll hands
\* back the bytes it had read, a non-nil slice, and the call returns nil, err.
LazyReadFailed ==
    /\ lazyKind # "none" /\ lazyCalls < MaxCalls
    /\ ~IsCached(cache)
    /\ httpGets' = httpGets + 1
    /\ \E body \in Bodies \ {""}, part \in PartialReads :
          /\ lastBody' = body
          /\ cache' = BytesOf(part)
    /\ LazyReturn(NilBytes, ReadErr, httpGets + 1)
    /\ UNCHANGED <<lazyKind, okFetches, nonLazyVars>>

\* The body is read to the end: it is stored and returned.
LazyFetched ==
    /\ lazyKind # "none" /\ lazyCalls < MaxCalls
    /\ ~IsCached(cache)
    /\ httpGets' = httpGets + 1
    /\ okFetches' = okFetches + 1
    /\ \E body \in Bodies :
          /\ lastBody' = body
          /\ cache' = BytesOf(body)
          /\ LazyReturn(BytesOf(body), Nil, httpGets + 1)
    /\ UNCHANGED <<lazyKind, nonLazyVars>>

-----------------------------------------------------------------------------
(* Specifications *)

\* fetchWithRetry alone, on every request shape and retry budget.
\* The bodies of the requests fetchWithRetry is called with: none when
\* req.Body == nil, else an empty or a non-empty one.
RequestBodies(gb) == IF gb = "none" THEN {""} ELSE {"", "a=1"}

InitRetry ==
    /\ retries \in -1..MaxRetries
    /\ reqGetBody \in {"none", "ok", "flaky"}
    /\ attempt = 0 /\ lastErr = Nil
    /\ fwrPc = "loop" /\ fwrResp = Nil /\ fwrErr = Nil
    /\ sends = 0 /\ sleeps = 0 /\ closes = 0 /\ trace = <<>>
    /\ origBody \in RequestBodies(reqGetBody)
    /\ bodyLeft = origBody /\ sentBodies = <<>>
    /\ PoolIdle
    /\ ClientIdle
    /\ LazyIdle

NextRetry == FwrStep

SpecRetry == InitRetry /\ [][NextRetry]_vars

\* ConcurrentScrape(configs, concurrencyLimit) on every batch size and limit.
InitPool ==
    /\ FwrIdle
    /\ nConfigs \in 0..MaxConfigs
    /\ concurrencyLimit \in -1..MaxLimit
    /\ coPc = "entry"
    /\ spawnI = 0 /\ submitI = 0
    /\ jobs = <<>> /\ jobsClosed = FALSE
    /\ resultsChan = <<>> /\ resultsClosed = FALSE
    /\ wg = 0
    /\ wPc = [w \in WorkerIds |-> "unborn"]
    /\ wJob = [w \in WorkerIds |-> 0]
    /\ wOut = [w \in WorkerIds |-> "none"]
    /\ waiterPc = "unborn"
    /\ received = <<>>
    /\ scrapeCalls = [i \in 1..MaxConfigs |-> 0]
    /\ panicked = FALSE
    /\ ClientIdle
    /\ LazyIdle

NextPool ==
    \/ CoStep
    \/ \E w \in WorkerIds : WStep(w)
    \/ WaiterClose
    \/ ConsumerRecv

SpecPool == InitPool /\ [][NextPool]_vars

\* The Go scheduler runs every goroutine that can take a step; the caller may
\* stop reading the returned channel, so ConsumerRecv carries no fairness.
FairSpecPool ==
    /\ SpecPool
    /\ WF_vars(CoStep)
    /\ \A w \in WorkerIds : WF_vars(WStep(w))
    /\ WF_vars(WaiterClose)

\* One call of Scrape, Screenshot or Extract on every configuration.
InitClient ==
    /\ FwrIdle
    /\ PoolIdle
    /\ op \in Ops
    /\ config \in ConfigsOf(op)
    /\ config0 = config
    /\ opPc = "call"
    /\ pbErr = Nil /\ enc = NotCalled /\ req = NoRequest
    /\ opResult = NilResult /\ opErr = Nil /\ directSends = 0 /\ loFetch = NoFetch
    /\ respBody = NoBody /\ respRetryAfter = NoHeader /\ errDetail = NoDetail
    /\ LazyIdle

\* What Client.Account may meet: a failed c.httpClient.Do, an unreadable
\* body, a status other than 200, a body that is not account data, the data.
AccountOutcomes == {"transport", "unreadable", "status", "unmarshal", "ok"}

\* The statuses other than 200 the account endpoint answers with.
AccountErrorStatuses == {401, 429, 500, 503}

\* func (c *Client) Account() (*AccountData, error): one c.httpClient.Do
\* call, then the same handling of the answer as the other operations.
AccountCall ==
    /\ op = "account" /\ opPc = "call"
    /\ directSends' = directSends + 1
    /\ \E outcome \in AccountOutcomes :
          CASE outcome = "transport" ->
                  /\ OpReturn(NilResult, TransportErr)
                  /\ UNCHANGED respVars
            [] outcome = "unreadable" ->
                  /\ OpReturn(NilResult, Wrap("failed to read response body", PlainErr("unexpected EOF")))
                  /\ UNCHANGED respVars
            [] outcome = "status" ->
                  \E status \in AccountErrorStatuses, body \in ErrorBodies, ra \in RetryAfterHeaders :
                      /\ OpReturn(NilResult, HandleAPIErrorResponse(status, body))
                      /\ respBody' = ErrorBody(body)
                      /\ respRetryAfter' = ra
                      /\ errDetail' = [retryAfterMs |-> RetryAfterMs(body, ra),
                                       hint |-> Hint(status, body)]
            [] outcome = "unmarshal" ->
                  /\ OpReturn(NilResult, Wrap("failed to unmarshal account data", PlainErr("invalid character")))
                  /\ UNCHANGED respVars
            [] outcome = "ok" ->
                  /\ OpReturn(Result("account", "json", "inline"), Nil)
                  /\ UNCHANGED respVars
    /\ UNCHANGED <<op, config, config0, pbErr, enc, req, loFetch, fwrVars, poolVars, lazyVars>>

\* The statuses the API answers a client call with.
ClientStatuses == {200, 429, 500}

NextClient ==
    \/ ScrapeCall
    \/ ScreenshotCall
    \/ ExtractCall
    \/ AccountCall
    \/ FwrTransportError
    \/ \E status \in ClientStatuses : FwrResponse(status)
    \/ FwrExhausted
    \/ OpFetchFailed
    \/ OpReadFailed
    \/ OpStatusError
    \/ ScrapeUnmarshalFailed
    \/ ScrapeSucceeded
    \/ ScrapeLargeObject
    \/ ScrapeUnsuccessful
    \/ ScreenshotSucceeded
    \/ ExtractUnmarshalFailed
    \/ ExtractSucceeded

SpecClient == InitClient /\ [][NextClient]_vars

\* One Screenshot or Attachment of a result, its bytes not yet fetched, on
\* which Image() / Data() is called up to MaxCalls times, one call after another.
InitLazy ==
    /\ FwrIdle
    /\ PoolIdle
    /\ ClientIdle
    /\ lazyKind \in {"screenshot", "attachment"}
    /\ cache = NilBytes /\ lazyRet = NoReturn
    /\ lazyCalls = 0 /\ httpGets = 0 /\ okFetches = 0
    /\ firstOk = NoFirst /\ lastBody = ""

NextLazy ==
    \/ LazyCached
    \/ LazyGetFailed
    \/ LazyReadFailed
    \/ LazyFetched

SpecLazy == InitLazy /\ [][NextLazy]_vars

-----------------------------------------------------------------------------
(* Properties of the retry dispatcher, checked under SpecRetry *)

\* A transport outcome that ends the dispatch: a response outside [500,599].
ClaimNonFailing(o) == o.kind = "resp" /\ ~(o.code \in 500..599)

\* The failure the dispatcher is to record for a failing outcome.
ClaimFailureOf(o) ==
    IF o.kind = "neterr"
    THEN o
    ELSE [kind |-> "apierr", code |-> o.code, msg |-> "server error"]

\* The attempts of the run whose outcome was not a failure.
GoodAttempts == {i \in 1..Len(trace) : ClaimNonFailing(trace[i])}

\* A run of the dispatcher that ended and in which GetBody never failed.
FwrCompleted == fwrPc = "returned" /\ fwrErr # GetBodyErr

\* C1: with retries >= 1, fetchWithRetry returns the response of the first
\* attempt that is neither a transport error nor a 5xx, with a nil error; if
\* there is none within `retries` attempts it returns no response and the
\* failure of the last attempt (the transport error, or the synthetic server
\* error carrying that attempt's status).
C1_FirstGoodOrLastFailure ==
    (FwrCompleted /\ retries >= 1) =>
        IF GoodAttempts # {}
        THEN /\ Min(GoodAttempts) <= retries
             /\ fwrResp = trace[Min(GoodAttempts)]
             /\ fwrErr = Nil
        ELSE /\ Len(trace) = retries
             /\ fwrResp = Nil
             /\ fwrErr = ClaimFailureOf(trace[retries])

\* C1 witness: 500, transport error, then 200 with retries = 3 returns the 200.
C1_Witness ==
    /\ fwrPc = "returned" /\ retries = 3
    /\ trace = <<Response(500), TransportErr, Response(200)>>
    /\ fwrResp = Response(200) /\ fwrErr = Nil

\* C2: the request is sent at most `retries` times; a run in which every
\* attempt fails performs exactly `retries` sends, and a run whose first
\* non-failing attempt is the k-th performs exactly k sends.
C2_SendBudget ==
    /\ sends <= (IF retries > 0 THEN retries ELSE 0)
    /\ FwrCompleted =>
          IF GoodAttempts = {}
          THEN sends = (IF retries > 0 THEN retries ELSE 0)
          ELSE sends = Min(GoodAttempts)

\* C2 witness: a 5xx on all 3 attempts returns the server error after 3 sends.
C2_Witness ==
    /\ fwrPc = "returned" /\ retries = 3 /\ sends = 3
    /\ trace = <<Response(599), Response(500), Response(599)>>
    /\ fwrResp = Nil /\ fwrErr = [kind |-> "apierr", code |-> 599, msg |-> "server error"]

\* C3: a response with a status outside [500,599] ends the dispatch at once:
\* it is the last send, it is returned with a nil error, and no sleep follows
\* it (i-1 sleeps for the i-1 failures before it).
C3_NonServerErrorEndsAtOnce ==
    \A i \in 1..Len(trace) :
        ClaimNonFailing(trace[i]) =>
            /\ fwrPc = "returned"
            /\ i = Len(trace) /\ sends = i /\ sleeps = i - 1
            /\ fwrResp = trace[i] /\ fwrErr = Nil

\* C3 witness: a 404 on the first attempt, returned after exactly one send.
C3_Witness ==
    /\ fwrPc = "returned" /\ retries = 3
    /\ trace = <<Response(404)>> /\ sends = 1 /\ sleeps = 0
    /\ fwrResp = Response(404) /\ fwrErr = Nil

-----------------------------------------------------------------------------
(* Properties of the concurrency coordinator, checked under SpecPool *)

\* Number of items of the completion stream that carry config i's outcome.
ItemsFor(i) == Cardinality({k \in 1..Len(Delivered) : Delivered[k].cfg = i})

\* C4: the number of Scrape calls started and not yet returned never exceeds
\* the concurrency limit in force.
C4_AtMostLimitInFlight ==
    InFlight <= (IF concurrencyLimit >= 1 THEN concurrencyLimit ELSE 0)

\* C4 witness: the limit is reached while more configurations wait in the queue.
C4_Witness ==
    /\ concurrencyLimit >= 1 /\ concurrencyLimit < nConfigs
    /\ InFlight = concurrencyLimit
    /\ jobs # <<>>

\* C5: when the stream is closed after a run of the pool (the limit given, or
\* taken from a successful account lookup), it has carried exactly N items,
\* one per configuration, and each configuration was scraped exactly once.
C5_EveryOutcomeExactlyOnce ==
    (resultsClosed /\ waiterPc = "done") =>
        /\ Len(Delivered) = nConfigs
        /\ \A i \in 1..nConfigs : ItemsFor(i) = 1 /\ scrapeCalls[i] = 1

\* C6: the stream is closed only once no worker is running or has a result
\* to send, and no goroutine ever sends on (or closes) a closed channel.
C6_ClosedOnlyAfterWorkers ==
    /\ ~panicked
    /\ resultsClosed => \A w \in WorkerIds : wPc[w] \in {"unborn", "exit"}

\* C6 witness: a pool of two workers has delivered its outcomes and the
\* closing goroutine has closed the stream.
C6_Witness ==
    /\ resultsClosed /\ waiterPc = "done"
    /\ spawnI >= 2 /\ nConfigs >= 2 /\ Len(Delivered) >= 2

\* C7: a failed account lookup (limit <= 0) leads to a closed stream that
\* carries exactly one item, an error, with no worker spawned and no Scrape call.
C7_LookupFailureEmitsOneError ==
    (coPc = "sendfail") ~>
        (/\ resultsClosed
         /\ Delivered = <<AccountFailureItem>>
         /\ spawnI = 0
         /\ \A i \in 1..MaxConfigs : scrapeCalls[i] = 0)

\* C8: an error outcome of one configuration cancels or skips no other: when
\* the stream is closed after some Scrape call failed, the queue is drained
\* and every configuration has been scraped.
C8_ErrorsDoNotCancel ==
    (/\ resultsClosed
     /\ \E k \in 1..Len(Delivered) : Delivered[k].kind = "error" /\ Delivered[k].cfg >= 1) =>
        /\ jobs = <<>>
        /\ \A i \in 1..nConfigs : scrapeCalls[i] = 1

\* C8 witness: the first outcome delivered is an error, and a later
\* configuration still produced a result.
C8_Witness ==
    /\ resultsClosed /\ Len(Delivered) >= 2
    /\ Delivered[1].kind = "error" /\ Delivered[1].cfg >= 1
    /\ \E k \in 2..Len(Delivered) : Delivered[k].kind = "result"

-----------------------------------------------------------------------------
(* Properties of the client operations, checked under SpecClient *)

\* The configuration lacks its required target: the URL of a scrape or a
\* screenshot, the Body or the ContentType of an extraction.
ClaimMissingTarget ==
    \/ op \in {"scrape", "screenshot"} /\ config.URL = ""
    \/ op = "extract" /\ (Len(config.Body.bytes) = 0 \/ config.ContentType = "")

\* The call is past validation and the configuration was rejected.
ClaimRejected ==
    /\ opPc # "call"
    /\ \/ pbErr # Nil
       \/ enc # NotCalled /\ enc.isNil
       \/ ClaimMissingTarget

\* The error validation produced.
ClaimValidationError == IF pbErr # Nil THEN pbErr ELSE enc.err

\* C9: when validation rejects the configuration of a Scrape, Screenshot or
\* Extract call (an empty URL, an empty Body or ContentType, or any other
\* validation failure), the call has returned that validation error with a
\* nil result, and no HTTP request has been built or sent.
C9_RejectedNeverSent ==
    ClaimRejected =>
        /\ opPc = "done"
        /\ opResult = NilResult
        /\ opErr # Nil /\ opErr = ClaimValidationError
        /\ req = NoRequest
        /\ sends = 0 /\ directSends = 0

C9_Witness ==
    /\ op = "scrape" /\ opPc = "done"
    /\ pbErr = ConfigErr("cannot set both Body and Data")
    /\ opErr = pbErr /\ opResult = NilResult
    /\ sends = 0

\* The number of extraction-strategy fields a configuration sets.
ClaimStrategiesSet(c) ==
    Cardinality({f \in {"ExtractionTemplate", "ExtractionPrompt", "ExtractionModel"} : c[f] # ""})
    + (IF c.ExtractionEphemeralTemplate.isNil THEN 0 ELSE 1)

\* C10: whenever toAPIParams has run on a ScrapeConfig or an ExtractionConfig
\* that sets two or more of ExtractionTemplate, ExtractionEphemeralTemplate,
\* ExtractionPrompt and ExtractionModel, it returned an error and nil
\* parameters.
C10_TwoStrategiesRejected ==
    (/\ op \in {"scrape", "extract"}
     /\ enc # NotCalled
     /\ ClaimStrategiesSet(config) >= 2)
        => enc.isNil /\ enc.err # Nil

\* The wire keys only the browser block sets, for configuration c.
ClaimBrowserKeys(c) ==
    {"render_js", "wait_for_selector", "rendering_wait", "auto_scroll", "js", "js_scenario",
     "screenshot_flags"}
    \cup {"screenshots[" \o n \o "]" : n \in Keys(c.Screenshots)}

\* toAPIParams has run on the ScrapeConfig and returned parameters.
ClaimScrapeEncoded == op = "scrape" /\ enc # NotCalled /\ ~enc.isNil

\* C11: the parameters toAPIParams returns for a ScrapeConfig with RenderJS
\* false hold none of render_js, wait_for_selector, rendering_wait,
\* auto_scroll, js, js_scenario, screenshots[...] and screenshot_flags,
\* whatever the browser fields of the configuration hold.
C11_NoBrowserKeysWithoutRenderJS ==
    (ClaimScrapeEncoded /\ ~config.RenderJS)
        => (DOMAIN enc.params) \cap ClaimBrowserKeys(config) = {}

C11_Witness ==
    /\ ClaimScrapeEncoded /\ ~config.RenderJS
    /\ config.JS = "alert(1)" /\ config.WaitForSelector = "#main"
    /\ config.JSScenario = <<"click">> /\ config.ScreenshotFlags = <<"dark_mode">>
    /\ "main" \in Keys(config.Screenshots)
    /\ "url" \in DOMAIN enc.params

\* handleAPIErrorResponse built the returned error from a non-200 response.
ClaimClassified == opPc = "done" /\ opErr.kind = "apierr" /\ respBody.form \in ErrorBodies

\* The int x holds exactly 1000 * s: the product fits in 63 bits.
ClaimIsThousandTimes(x, s) ==
    /\ MulLimbs(s, 1000).carry = 0
    /\ MulLimbs(s, 1000).limbs[1] < 32768
    /\ x = MulLimbs(s, 1000).limbs

\* C12: when the classified response carries a Retry-After header holding a
\* non-negative integer s, the APIError has RetryAfterMs = 1000 * s, whatever
\* the body holds.
C12_RetryAfterSeconds ==
    (ClaimClassified /\ respRetryAfter.form = "int")
        => ClaimIsThousandTimes(errDetail.retryAfterMs, respRetryAfter.secs)

\* C13: RetryAfterMs of every APIError the classifier builds is >= 0; it is 0
\* for an HTTP-date in the past, for a negative integer and for a value that
\* parses as neither.
C13_RetryAfterNeverNegative ==
    ClaimClassified =>
        /\ ~IsNegative64(errDetail.retryAfterMs)
        /\ (respRetryAfter.form = "date" /\ respRetryAfter.offsetMs < 0)
               => errDetail.retryAfterMs = ToInt64(0)
        /\ respRetryAfter.form \in {"negative", "garbage", "out_of_range"}
               => errDetail.retryAfterMs = ToInt64(0)

\* Scrape decoded a result from a 200 response and returned.
ClaimDecoded == op = "scrape" /\ opPc = "done" /\ respBody.form = "result"

\* The decoded result is a failed one: success false, or a status other than DONE.
ClaimFailedResult ==
    ClaimDecoded /\ ~(respBody.result.success /\ respBody.result.status = "DONE")

\* The error kind the second segment of a status selects.
ClaimTagKind(status) ==
    CASE status = "ERR::SCRAPE::BAD_UPSTREAM_RESPONSE" -> "ErrScrapeFailed"
      [] status = "ERR::PROXY::POOL_NOT_FOUND" -> "ErrProxyFailed"
      [] status = "ERR::ASP::SHIELD_ERROR" -> "ErrASPBypassFailed"
      [] status = "ERR::SCHEDULE::DISABLED" -> "ErrScheduleFailed"
      [] status = "ERR::WEBHOOK::DISABLED" -> "ErrWebhookFailed"
      [] status = "ERR::SESSION::CONCURRENT_ACCESS" -> "ErrSessionFailed"
      [] OTHER -> "ErrUnhandledAPIResponse"

\* The status-code rule of createErrorFromResult applies to the result.
ClaimStatusCodeRule == ~respBody.result.success /\ respBody.result.code >= 400

\* C14 (as stated): the error of every failed result has the kind its
\* status' second segment selects (SCRAPE, PROXY, ASP, SCHEDULE, WEBHOOK,
\* SESSION), and the unhandled-API-response kind when there is no second
\* segment or an unrecognized one; so every ERR::PROXY::POOL_NOT_FOUND result
\* yields the proxy-failure kind.
C14_TagSelectsKind ==
    ClaimFailedResult => opErr.kind = ClaimTagKind(respBody.result.status)

\* C14 (amended): the same, for the failed results the status-code rule does
\* not claim (Success true, or StatusCode below 400).
C14_TagSelectsKindUnlessStatusCode ==
    (ClaimFailedResult /\ ~ClaimStatusCodeRule)
        => opErr.kind = ClaimTagKind(respBody.result.status)

C14_Witness ==
    /\ ClaimFailedResult /\ ~ClaimStatusCodeRule
    /\ respBody.result.status = "ERR::PROXY::POOL_NOT_FOUND"
    /\ opErr.kind = "ErrProxyFailed"

\* The kind the embedded StatusCode selects: upstream-client for 400..499,
\* upstream-server for 500..599.
ClaimStatusCodeKind(code) ==
    IF code >= 400 /\ code <= 499 THEN "ErrUpstreamClient" ELSE "ErrUpstreamServer"

\* C15: the error of every failed result whose StatusCode is in
\* 400..499 has the upstream-client kind, and in 500..599 the upstream-server
\* kind, whatever the Success flag and the subsystem tag of the status.
C15_StatusCodeKindWins ==
    (ClaimFailedResult /\ respBody.result.code >= 400 /\ respBody.result.code <= 599)
        => opErr.kind = ClaimStatusCodeKind(respBody.result.code)

\* Scrape returned a result and a nil error.
ClaimReturnedResult == opErr = Nil /\ opResult # NilResult

\* Scrape returned no result and the error createErrorFromResult builds.
ClaimReturnedResultError ==
    opResult = NilResult /\ opErr # Nil /\ opErr = CreateErrorFromResult(respBody.result)

ClaimHasOutsider(values, enum) == \E i \in DOMAIN values : values[i] \notin enum

\* The ScrapeConfig holds, in an enumerated field, a value outside the
\* field's closed set.
ClaimScrapeEnumOutsider(c) ==
    \/ c.Format \notin FormatEnum \cup {""}
    \/ ClaimHasOutsider(c.FormatOptions, FormatOptionEnum)
    \/ c.ProxyPool \notin ProxyPoolEnum \cup {""}
    \/ c.ExtractionModel \notin ExtractionModelEnum \cup {""}
    \/ ClaimHasOutsider(c.ScreenshotFlags, ScreenshotFlagEnum)
    \/ c.Method \notin HttpMethodEnum \cup {""}

\* The call is past validation with an enumerated field outside its set.
ClaimEnumOutsider ==
    /\ opPc # "call"
    /\ \/ op = "scrape" /\ ClaimScrapeEnumOutsider(config)
       \/ op = "extract" /\ config.ExtractionModel \notin ExtractionModelEnum \cup {""}

\* C17: a configuration holding, in Format, FormatOptions, ProxyPool,
\* ExtractionModel, ScreenshotFlags or Method, a value outside the field's
\* closed set is rejected with an error: no parameters are returned for it
\* and no request is built or sent.
C17_EnumOutsiderRejected ==
    ClaimEnumOutsider =>
        /\ opPc = "done" /\ opResult = NilResult /\ opErr # Nil
        /\ pbErr # Nil \/ enc.isNil
        /\ req = NoRequest /\ sends = 0

\* The content types a configuration declares: the values of its
\* content-type headers, whatever the case of the name.
ClaimContentTypes(c) ==
    {c.Headers.kv[k] : k \in {h \in Keys(c.Headers) : ToLower(h) = "content-type"}}

\* Scrape has validated a configuration of the caller's.
ClaimScrapeValidated == op = "scrape" /\ opPc # "call"

\* C18: a ScrapeConfig with both a non-empty Body and a non-nil Data fails
\* with a configuration error and nothing is sent, whatever the method; with
\* only Data set, Body becomes its JSON for a content-type containing
\* application/json, its form encoding for application/x-www-form-urlencoded
\* or no content-type, and any other content-type is a configuration error.
C18_BodyAndData ==
    ClaimScrapeValidated =>
        /\ (config0.Body # "" /\ ~config0.Data.isNil)
               => /\ opPc = "done" /\ opErr.kind = "config"
                  /\ req = NoRequest /\ sends = 0
        /\ (config0.Body = "" /\ ~config0.Data.isNil)
               => LET types == ClaimContentTypes(config0)
                      json == \E t \in types : Contains(t, "application/json")
                      form == types = {} \/ \E t \in types : Contains(t, "application/x-www-form-urlencoded")
                  IN  /\ json => (pbErr = Nil => config.Body = JSONMarshal(config0.Data).out)
                      /\ form => (pbErr = Nil /\ config.Body = FormEncode(config0.Data))
                      /\ (~json /\ ~form) => pbErr.kind = "config"

\* C19: processBody followed by toAPIParams leaves every field of the
\* configuration as it was, except that Headers may have gained a
\* content-type entry, whether the configuration is accepted or rejected.
C19_EncodingLeavesConfig ==
    ClaimScrapeValidated =>
        /\ \A f \in (DOMAIN config0) \ {"Headers"} : config[f] = config0[f]
        /\ Keys(config.Headers) \ Keys(config0.Headers) \subseteq {"content-type"}
        /\ \A k \in Keys(config0.Headers) :
               k \in Keys(config.Headers) /\ config.Headers.kv[k] = config0.Headers.kv[k]

\* C20: the credential rewrite is idempotent: applied again to the
\* references of a returned result, which it has rewritten once, it leaves
\* each screenshot URL and attachment content as it is, holding the
\* credential parameter once.
C20_RewriteIdempotent ==
    (ClaimDecoded /\ ClaimReturnedResult)
        => /\ opResult.refs = RewriteRefs(respBody.result.refs)
           /\ RewriteRefs(opResult.refs) = opResult.refs


\* The decoded result is a successful DONE one whose format is clob or blob.
ClaimLargeObject ==
    /\ ClaimDecoded
    /\ respBody.result.success /\ respBody.result.status = "DONE"
    /\ respBody.result.format \in {"clob", "blob"}

\* C21: a successful scrape whose format is clob or blob returns the body
\* fetched from the URL its content held, fetched with the client's API key,
\* with format text (clob) or binary (blob); when that fetch fails Scrape
\* returns no result and an error wrapping the fetch failure; no returned
\* scrape result has format clob or blob.
C21_LargeObjectResolved ==
    /\ ClaimLargeObject =>
          /\ loFetch.url = respBody.result.content /\ loFetch.key = APIKey
          /\ IF loFetch.outcome = "ok"
             THEN /\ ClaimReturnedResult
                  /\ opResult.content = LargeObjectBody(respBody.result.content)
                  /\ opResult.format =
                        (IF respBody.result.format = "clob" THEN "text" ELSE "binary")
             ELSE /\ opResult = NilResult /\ opErr # Nil
                  /\ opErr.cause = HandleLargeObjectsErr(loFetch.outcome)
    /\ (op = "scrape" /\ opPc = "done" /\ ClaimReturnedResult)
          => opResult.format \notin {"clob", "blob"}

\* A blob result was fetched and returned as binary.
C21_Witness ==
    /\ ClaimLargeObject
    /\ respBody.result.format = "blob" /\ loFetch.outcome = "ok"
    /\ opResult.format = "binary"


\* The call ended with the failure of an HTTP call made outside
\* fetchWithRetry: Account's request or the large-object fetch met a
\* transport error, or Account's request was answered with a 5xx status.
ClaimDirectCallFailed ==
    /\ opPc = "done" /\ opErr # Nil
    /\ \/ op = "account" /\ opErr = TransportErr
       \/ op = "account" /\ opErr.kind = "apierr" /\ opErr.code >= 500
       \/ op = "scrape" /\ loFetch.outcome = "transport"

\* C22: every HTTP call of the client is retried on a transport error or a
\* 5xx status up to the budget of 3 attempts: a call of Scrape, Screenshot or
\* Extract that surfaces such a failure of its request has sent it 3 times,
\* and so has a call whose Account request or large-object fetch failed so.
C22_EveryCallRetried ==
    /\ (opPc = "done" /\ op # "account" /\ req # NoRequest /\ fwrErr # Nil)
          => sends = defaultRetries
    /\ ClaimDirectCallFailed => directSends = defaultRetries


-----------------------------------------------------------------------------
(* Properties of the lazily fetched bytes, checked under SpecLazy *)

\* C23: once a call of Image() / Data() has returned bytes with a nil error,
\* every later call on the object returns those bytes with a nil error and
\* no further request is made; at most one fetch per object is read to the end.
C23_FetchedOnce ==
    /\ okFetches <= 1
    /\ firstOk # NoFirst =>
          /\ lazyRet = [bytes |-> firstOk.bytes, err |-> Nil]
          /\ httpGets = firstOk.gets

\* The bytes were fetched by one call and returned again by two later ones.
C23_Witness ==
    /\ okFetches = 1 /\ firstOk # NoFirst
    /\ lazyCalls >= httpGets + 2
    /\ lazyRet.err = Nil /\ lazyRet.bytes = BytesOf(lastBody)

\* C29: when Image() / Data() returns an error the cached bytes stay nil, so
\* the next call fetches again, and a call that returns a nil error returns
\* the whole body of the latest answer, never a part of it.
C29_FailedFetchLeavesCacheUnset ==
    /\ (lazyRet # NoReturn /\ lazyRet.err # Nil) => cache = NilBytes
    /\ (lazyRet # NoReturn /\ lazyRet.err = Nil) => lazyRet.bytes = BytesOf(lastBody)


-----------------------------------------------------------------------------
(* Properties of the request body in the retry dispatcher, checked under SpecRetry *)

\* C24: for a request that has a body every attempt of fetchWithRetry, the
\* first included, sends the bytes of the original body, read from a fresh
\* reader req.GetBody returned; and when GetBody fails fetchWithRetry returns
\* that error at once: no request is sent for that attempt or after it.
C24_FreshBodyEveryAttempt ==
    /\ reqGetBody # "none" =>
          /\ Len(sentBodies) = sends
          /\ \A k \in 1..Len(sentBodies) : sentBodies[k] = origBody
    /\ (fwrPc = "returned" /\ fwrErr = GetBodyErr) =>
          /\ fwrResp = Nil
          /\ sends = attempt /\ Len(trace) = attempt


\* Two attempts sent the whole body, then GetBody failed on the third.
C24_Witness ==
    /\ reqGetBody = "flaky" /\ origBody = "a=1"
    /\ fwrPc = "returned" /\ fwrErr = GetBodyErr
    /\ sends = 2 /\ sentBodies = <<"a=1", "a=1">>


-----------------------------------------------------------------------------
(* Order of validation, checked under SpecClient *)

\* The errors that report the empty primary target of operation o.
ClaimMissingTargetErrors(o) ==
    CASE o = "scrape" -> {ConfigErr("URL is required")}
      [] o = "screenshot" -> {ScreenshotConfigErr("URL is required")}
      [] o = "extract" ->
            {PlainErr("field 'Body' is required but was not set"),
             PlainErr("field 'ContentType' is required but was not set"),
             ExtractionConfigErr("Body is required"),
             ExtractionConfigErr("ContentType is required")}
      [] OTHER -> {}

\* The error reports mutually exclusive extraction strategies.
ClaimExclusiveError(err) ==
    \/ err \in {ConfigErr("cannot use both extraction_template and extraction_ephemeral_template"),
                ExtractionConfigErr("cannot use both extraction_template and extraction_ephemeral_template")}
    \/ \E f \in {"ExtractionTemplate", "ExtractionEphemeralTemplate", "ExtractionPrompt"},
          g \in {"ExtractionEphemeralTemplate", "ExtractionPrompt", "ExtractionModel"} :
          err = PlainErr("fields " \o f \o " and " \o g \o " are mutually exclusive")

\* The call of a validating operation is past validation.
ClaimValidated == op \in {"scrape", "screenshot", "extract"} /\ opPc # "call"

\* C25: of several violated rules the earliest decides the error: the empty
\* target first, then two extraction strategies set together, then Body set
\* together with Data; a configuration with an empty target is rejected with
\* the missing-target error whatever else is wrong with it.
C25_EarliestRuleDecides ==
    ClaimValidated =>
        IF ClaimMissingTarget
        THEN opPc = "done" /\ opErr \in ClaimMissingTargetErrors(op)
        ELSE IF op \in {"scrape", "extract"} /\ ClaimStrategiesSet(config0) >= 2
        THEN opPc = "done" /\ ClaimExclusiveError(opErr)
        ELSE (op = "scrape" /\ config0.Body # "" /\ ~config0.Data.isNil
              /\ ToUpper(HttpMethodString(config0.Method)) \in {"POST", "PUT", "PATCH"})
                => opPc = "done" /\ opErr = ConfigErr("cannot set both Body and Data")


-----------------------------------------------------------------------------
(* The cookie header, checked under SpecClient *)

\* The name=value pairs of the cookies of c, in the given order, joined by "; ".
ClaimCookiePairs(c, order) ==
    Join([i \in DOMAIN order |-> order[i] \o "=" \o c.Cookies.kv[order[i]]], "; ")

\* The keys of Headers that are "cookie" when letter case is set aside.
ClaimCookieHeaderKeys(c) == {k \in Keys(c.Headers) : ToLower(k) = "cookie"}

\* A header or a cookie of c has an empty key or an empty value.
ClaimEmptyPart(c) ==
    \/ \E k \in Keys(c.Headers) : k = "" \/ c.Headers.kv[k] = ""
    \/ \E k \in Keys(c.Cookies) : k = "" \/ c.Cookies.kv[k] = ""

\* C26: for a ScrapeConfig with non-empty Cookies the encoded headers[cookie]
\* is the cookies' name=value pairs joined by "; ", after the value of the
\* Cookie header and "; " when Headers has one under any letter case; a
\* header or cookie with an empty key or value makes the encoding fail.
C26_CookieHeaderMerged ==
    (op = "scrape" /\ enc # NotCalled) =>
        /\ ClaimEmptyPart(config) => enc.isNil /\ enc.err # Nil
        /\ (~enc.isNil /\ Cardinality(Keys(config.Cookies)) > 0) =>
              /\ "headers[cookie]" \in DOMAIN enc.params
              /\ \E order \in Orders(Keys(config.Cookies)) :
                    IF ClaimCookieHeaderKeys(config) = {}
                    THEN enc.params["headers[cookie]"] = ClaimCookiePairs(config, order)
                    ELSE \E k \in ClaimCookieHeaderKeys(config) :
                            enc.params["headers[cookie]"] =
                                config.Headers.kv[k] \o "; " \o ClaimCookiePairs(config, order)

\* Two cookies were merged behind the value of a Cookie header.
C26_Witness ==
    /\ ClaimScrapeEncoded
    /\ Cardinality(Keys(config.Cookies)) = 2
    /\ ClaimCookieHeaderKeys(config) = {"Cookie"}
    /\ enc.params["headers[cookie]"] = "a=1; sid=1; lang=en"


\* C30: toAPIParams is deterministic: run again on the configuration it has
\* encoded, whatever order the maps are then ranged over, it returns the same
\* parameters, or fails again if it failed.
C30_EncodingDeterministic ==
    (op = "scrape" /\ enc # NotCalled) =>
        \A sOrder \in Orders(Keys(config.Screenshots)),
           hOrder \in Orders(Keys(config.Headers)),
           cOrder \in Orders(Keys(config.Cookies)) :
            LET again == ScrapeToAPIParams(config, sOrder, hOrder, cOrder)
            IN  \/ enc.isNil /\ again.isNil
                \/ ~enc.isNil /\ ~again.isNil /\ again.params = enc.params


-----------------------------------------------------------------------------
(* The return values of the retry dispatcher, checked under SpecRetry *)

\* C28: fetchWithRetry never returns a response together with an error: with
\* retries >= 1 exactly one of the response and the error is non-nil; with
\* retries <= 0 no request is sent and both are nil.
C28_ResponseOrError ==
    fwrPc = "returned" =>
        /\ ~(fwrResp # Nil /\ fwrErr # Nil)
        /\ IF retries >= 1
           THEN (fwrResp = Nil) # (fwrErr = Nil)
           ELSE sends = 0 /\ fwrResp = Nil /\ fwrErr = Nil

\* A call with a negative budget returned nil, nil without a request.
C28_Witness ==
    /\ fwrPc = "returned" /\ retries = -1
    /\ sends = 0 /\ fwrResp = Nil /\ fwrErr = Nil


-----------------------------------------------------------------------------
(* Termination of the concurrency coordinator, checked under FairSpecPool *)

\* Neither the submission loop nor a worker's send of its result is blocked.
ClaimNeverBlocked ==
    /\ (coPc = "submit" /\ submitI < nConfigs) => Len(jobs) < nConfigs
    /\ \A w \in WorkerIds :
          wPc[w] = "send" => ~resultsClosed /\ Len(resultsChan) < nConfigs

\* C27: with the workers scheduled fairly, a call of ConcurrentScrape with
\* limit >= 1 leads to the completion stream being closed with every worker
\* terminated, whether or not the consumer reads; on the way neither the
\* submission of a job nor a worker's send of a result is ever blocked.
C27_StreamEventuallyClosed ==
    /\ [](ClaimNeverBlocked)
    /\ (coPc = "entry" /\ concurrencyLimit >= 1)
          ~> (resultsClosed /\ \A w \in WorkerIds : wPc[w] \in {"unborn", "exit"})

\* The stream of a pool of two workers was closed holding every outcome, the
\* consumer having read none.
C27_Witness ==
    /\ resultsClosed /\ received = <<>>
    /\ nConfigs = MaxConfigs /\ Len(resultsChan) = nConfigs
    /\ spawnI = 2 /\ \A w \in 1..2 : wPc[w] = "exit"

====
